---- MODULE Spec2Model ----
(***************************************************************************)
(* Model of the PolicyEngine/uk-mansion-tax analysis scripts:              *)
(*   analyze.py                (analyze_threshold: flat fee, households)   *)
(*   analyze_autumn_budget.py  (analyze: uprating, bands, OBR allocation)  *)
(*                                                                         *)
(* Python floats are IEEE-754 binary64.  They are modelled bit-exactly as  *)
(* a 53-bit significand times a power of two, the significand held as a    *)
(* little-endian sequence of 15-bit limbs, so that int(lower * factor),    *)
(* price * factor >= threshold and round() give the results CPython gives. *)
(***************************************************************************)
EXTENDS Integers, Sequences, FiniteSets, TLC

(***************************************************************************)
(* Natural numbers of arbitrary size: little-endian limb sequences with no *)
(* high zero limb (zero is the empty sequence).                            *)
(***************************************************************************)
BASE == 2 ^ 15

RECURSIVE BigFromInt(_)
BigFromInt(n) ==
    IF n = 0 THEN << >> ELSE << n % BASE >> \o BigFromInt(n \div BASE)

RECURSIVE BigToInt(_)
BigToInt(b) ==
    IF b = << >> THEN 0 ELSE Head(b) + BASE * BigToInt(Tail(b))

RECURSIVE BigStrip(_)
BigStrip(b) ==
    IF b = << >> THEN << >>
    ELSE IF b[Len(b)] = 0 THEN BigStrip(SubSeq(b, 1, Len(b) - 1))
    ELSE b

RECURSIVE BigMulSmallC(_, _, _)
BigMulSmallC(b, k, carry) ==
    IF b = << >> THEN BigFromInt(carry)
    ELSE LET t == Head(b) * k + carry
         IN  << t % BASE >> \o BigMulSmallC(Tail(b), k, t \div BASE)

BigMulSmall(b, k) == BigStrip(BigMulSmallC(b, k, 0))

RECURSIVE BigAddC(_, _, _)
BigAddC(a, b, carry) ==
    IF a = << >> /\ b = << >> THEN BigFromInt(carry)
    ELSE LET x == IF a = << >> THEN 0 ELSE Head(a)
             y == IF b = << >> THEN 0 ELSE Head(b)
             t == x + y + carry
         IN  << t % BASE >> \o BigAddC(IF a = << >> THEN a ELSE Tail(a),
                                        IF b = << >> THEN b ELSE Tail(b),
                                        t \div BASE)

BigAdd(a, b) == BigStrip(BigAddC(a, b, 0))

\* a - b for a >= b
RECURSIVE BigSubC(_, _, _)
BigSubC(a, b, borrow) ==
    IF a = << >> THEN << >>
    ELSE LET y == IF b = << >> THEN 0 ELSE Head(b)
             t == Head(a) - y - borrow
         IN  << t % BASE >> \o BigSubC(Tail(a),
                                        IF b = << >> THEN b ELSE Tail(b),
                                        IF t < 0 THEN 1 ELSE 0)

BigSub(a, b) == BigStrip(BigSubC(a, b, 0))

RECURSIVE BigMul(_, _)
BigMul(a, b) ==
    IF a = << >> \/ b = << >> THEN << >>
    ELSE LET rest == BigMul(a, Tail(b))
         IN  BigAdd(BigMulSmall(a, Head(b)),
                    IF rest = << >> THEN << >> ELSE << 0 >> \o rest)

\* quotient and remainder of b by a small k (0 < k < 2 * BASE)
RECURSIVE BigDivSmallR(_, _)
BigDivSmallR(b, k) ==
    IF b = << >> THEN [q |-> << >>, r |-> 0]
    ELSE LET hi  == BigDivSmallR(Tail(b), k)
             cur == hi.r * BASE + Head(b)
         IN  [q |-> << cur \div k >> \o hi.q, r |-> cur % k]

BigDivSmall(b, k) ==
    LET d == BigDivSmallR(b, k) IN [q |-> BigStrip(d.q), r |-> d.r]

\* -1, 0, 1 as a < b, a = b, a > b
RECURSIVE BigCmp(_, _)
BigCmp(a, b) ==
    IF Len(a) # Len(b) THEN (IF Len(a) < Len(b) THEN -1 ELSE 1)
    ELSE IF a = << >> THEN 0
    ELSE IF a[Len(a)] # b[Len(b)]
         THEN (IF a[Len(a)] < b[Len(b)] THEN -1 ELSE 1)
    ELSE BigCmp(SubSeq(a, 1, Len(a) - 1), SubSeq(b, 1, Len(b) - 1))

RECURSIVE IntBitLen(_)
IntBitLen(n) == IF n = 0 THEN 0 ELSE 1 + IntBitLen(n \div 2)

BigBitLen(b) ==
    IF b = << >> THEN 0 ELSE 15 * (Len(b) - 1) + IntBitLen(b[Len(b)])

RECURSIVE BigShl(_, _)
BigShl(b, k) ==
    IF b = << >> THEN << >>
    ELSE IF k >= 15 THEN << 0 >> \o BigShl(b, k - 15)
    ELSE BigMulSmall(b, 2 ^ k)

RECURSIVE BigShr(_, _)
BigShr(b, k) ==
    IF b = << >> THEN << >>
    ELSE IF k >= 15 THEN BigShr(Tail(b), k - 15)
    ELSE BigDivSmall(b, 2 ^ k).q

BigOdd(b) == b # << >> /\ Head(b) % 2 = 1

(***************************************************************************)
(* binary64: [m, e] is the value m * 2^e with 2^52 <= m < 2^53, or zero    *)
(* ([m |-> <<>>, e |-> 0]).  Only finite non-negative values in the normal *)
(* range occur in the scripts' arithmetic.                                 *)
(***************************************************************************)
FZero == [m |-> << >>, e |-> 0]

\* round m * 2^e (inexact below by "sticky") to nearest, ties to even
FRound(m, e, sticky) ==
    IF m = << >> THEN FZero
    ELSE LET L == BigBitLen(m)
         IN  IF L <= 53 THEN [m |-> BigShl(m, 53 - L), e |-> e - (53 - L)]
             ELSE LET s    == L - 53
                      q    == BigShr(m, s)
                      rem  == BigSub(m, BigShl(q, s))
                      half == BigShl(<< 1 >>, s - 1)
                      c    == BigCmp(rem, half)
                      up   == c > 0 \/ (c = 0 /\ (sticky \/ BigOdd(q)))
                      q2   == IF up THEN BigAdd(q, << 1 >>) ELSE q
                  IN  IF BigBitLen(q2) > 53
                      THEN [m |-> BigShr(q2, 1), e |-> e + s + 1]
                      ELSE [m |-> q2, e |-> e + s]

FFromInt(n) == FRound(BigFromInt(n), 0, FALSE)

FMul(x, y) == FRound(BigMul(x.m, y.m), x.e + y.e, FALSE)

FAdd(x, y) ==
    IF x.m = << >> THEN y
    ELSE IF y.m = << >> THEN x
    ELSE LET e == IF x.e < y.e THEN x.e ELSE y.e
         IN  FRound(BigAdd(BigShl(x.m, x.e - e), BigShl(y.m, y.e - e)), e, FALSE)

\* x / k for an integer 0 < k < 2 * BASE (k converts to a float exactly)
FDivInt(x, k) ==
    LET d == BigDivSmall(BigShl(x.m, 30), k)
    IN  FRound(d.q, x.e - 30, d.r # 0)

\* -1, 0, 1 as x < y, x = y, x > y
FCmp(x, y) ==
    IF x.m = << >> \/ y.m = << >>
    THEN (IF x.m = y.m THEN 0 ELSE IF x.m = << >> THEN -1 ELSE 1)
    ELSE LET e == IF x.e < y.e THEN x.e ELSE y.e
         IN  BigCmp(BigShl(x.m, x.e - e), BigShl(y.m, y.e - e))

\* int(x): truncation toward zero
FTrunc(x) ==
    IF x.e >= 0 THEN BigToInt(BigShl(x.m, x.e)) ELSE BigToInt(BigShr(x.m, 0 - x.e))

\* round(x) to a whole number, ties to even (numpy / pandas .round(0))
FRound0(x) ==
    IF x.e >= 0 THEN BigToInt(BigShl(x.m, x.e))
    ELSE LET s    == 0 - x.e
             q    == BigShr(x.m, s)
             rem  == BigSub(x.m, BigShl(q, s))
             c    == BigCmp(rem, BigShl(<< 1 >>, s - 1))
         IN  BigToInt(q) + (IF c > 0 \/ (c = 0 /\ BigOdd(q)) THEN 1 ELSE 0)


F1 == FFromInt(1)

\* a decimal literal with one fractional digit, e.g. 2.9 = FLit(29)
FLit(tenths) == FDivInt(FFromInt(tenths), 10)

(***************************************************************************)
(* State.  Input files, the module-level globals of                        *)
(* analyze_autumn_budget.py (computed at import), the locals of the        *)
(* running script, and what it has written and printed.                    *)
(***************************************************************************)
VARIABLES
    script,          \* "analyze" (analyze.py) or "autumn" (analyze_autumn_budget.py)
    pc,              \* position of the script's __main__ block
    pp_csv,          \* data/pp-2024.csv: rows [price, postcode]
    lookup_csv,      \* postcode file: rows [postcode, code]
    names_csv,       \* constituency names file: rows [code, name]
    census_xlsx,     \* TS003 sheet: rows [code, name, category, Observation]
    absent,          \* the input files that do not exist on disk
    argsort_ties,    \* how the build's quicksort argsort orders equal keys
    UPRATING_2024_TO_2028_HPI,
    THRESHOLD_UPRATING_2026_TO_2028,
    BANDS_2028,
    const_names,     \* dict code -> name
    postcode_lookup, \* postcode_to_const / postcode_lookup data frame
    households,      \* load_household_data() data frame
    threshold,       \* threshold of the last filter
    df,              \* the filtered sales (df / df_scope before the merge)
    joined,          \* the sales after the merge and the name mapping
    stats,           \* const_stats / stats returned by the last call
    files,           \* output files written: name -> rows
    stdout,          \* quantities printed so far
    growth_dict, from_year, to_year,   \* the arguments of a call of calculate_uprating_factor
    factor,          \* << >> until it returns, then << its result >>
    value,           \* the argument of a call of get_surcharge
    surcharge,       \* << >> until it returns, then << its result >>
    previous_run,    \* << >> in a first run; in a re-run, << what the run before left >>
    data_dir,        \* download_data.py: each destination under data/ is
                     \* "absent", "partial" or "complete"
    dl_pc,           \* position of the module body of download_data.py
    success,         \* its variable success
    last_return,     \* << >>, or << [dest, result] >> of the last download() call
    dl_report,       \* the closing message printed by the run: "none",
                     \* "complete" (All downloads complete!) or "failed"
    dl_runs,         \* how often the script has been started
    map_status       \* the map script run after the analysis: "none" before it
                     \* runs, then "written" or the exception that ended it

globals == << UPRATING_2024_TO_2028_HPI, THRESHOLD_UPRATING_2026_TO_2028, BANDS_2028 >>
inputs  == << pp_csv, lookup_csv, names_csv, census_xlsx, absent >>
platform == << argsort_ties >>
history == << previous_run >>
downloader == << data_dir, dl_pc, success, last_return, dl_report, dl_runs >>
maps == << map_status >>
locals  == << const_names, postcode_lookup, households, threshold, df, joined, stats >>
outputs == << files, stdout >>
fcall   == << growth_dict, from_year, to_year, factor >>
scall   == << value, surcharge >>
vars    == << script, pc, inputs, platform, history, downloader, maps, globals, locals, outputs, fcall, scall >>

NaN  == "NaN"                      \* a missing string cell
None == "None"
Inf  == -1                         \* float('inf'): no finite bound is negative
KeyError == [raised |-> "KeyError"] \* the exception of a failed dict lookup

(***************************************************************************)
(* analyze_autumn_budget.py: growth tables and calculate_uprating_factor   *)
(***************************************************************************)
HPI_GROWTH ==
    (2024 :> FLit(0)) @@ (2025 :> FLit(29)) @@ (2026 :> FLit(25)) @@
    (2027 :> FLit(25)) @@ (2028 :> FLit(24))

CPI_GROWTH ==
    (2026 :> FLit(0)) @@ (2027 :> FLit(25)) @@ (2028 :> FLit(20))

\* the loop body, for year, year + 1, ..., to_year; a missing key raises
RECURSIVE uprating_loop(_, _, _, _)
uprating_loop(growth, year, to, acc) ==
    IF year > to THEN acc
    ELSE IF year \notin DOMAIN growth THEN KeyError
    ELSE uprating_loop(growth, year + 1, to,
                       FMul(acc, FAdd(F1, FDivInt(growth[year], 100))))

\* mutants: range(from_year, to_year + 1) and range(from_year + 1, to_year)
calculate_uprating_factor_from_base(growth, from, to) ==
    uprating_loop(growth, from, to, F1)
calculate_uprating_factor_before_target(growth, from, to) ==
    uprating_loop(growth, from + 1, to - 1, F1)

calculate_uprating_factor(growth, from, to) ==
    uprating_loop(growth, from + 1, to, F1)

OBR_REVENUE_2029_30 == 400000000

BANDS_2026 ==
    << [lower |-> 2000000, upper |-> 2500000, charge |-> 2500],
       [lower |-> 2500000, upper |-> 3000000, charge |-> 3500],
       [lower |-> 3000000, upper |-> 5000000, charge |-> 5000],
       [lower |-> 5000000, upper |-> Inf,     charge |-> 7500] >>

\* mutant: the upper bounds rounded to the nearest integer, the lower bounds
\* truncated
UprateBandList_rounded_upper(bands, f) ==
    [i \in 1..Len(bands) |->
        [lower  |-> FTrunc(FMul(FFromInt(bands[i].lower), f)),
         upper  |-> IF bands[i].upper = Inf THEN Inf
                    ELSE FRound0(FMul(FFromInt(bands[i].upper), f)),
         charge |-> bands[i].charge]]

\* the list comprehension that uprates a band list (BANDS_2028, with the
\* uprating factor f)
UprateBandList(bands, f) ==
    [i \in 1..Len(bands) |->
        [lower  |-> FTrunc(FMul(FFromInt(bands[i].lower), f)),
         upper  |-> IF bands[i].upper = Inf THEN Inf
                    ELSE FTrunc(FMul(FFromInt(bands[i].upper), f)),
         charge |-> bands[i].charge]]

UprateBands(f) == UprateBandList(BANDS_2026, f)

\* float('inf') and float('nan') as values; x < y and x >= y as Python
\* evaluates them: every comparison with nan is false
FInf == [m |-> << >>, e |-> 1]
FNaN == [m |-> << >>, e |-> 2]

FLess(x, y) ==
    IF x = FNaN \/ y = FNaN THEN FALSE
    ELSE IF x = FInf THEN FALSE
    ELSE IF y = FInf THEN TRUE
    ELSE FCmp(x, y) < 0

FAtLeast(x, y) ==
    IF x = FNaN \/ y = FNaN THEN FALSE
    ELSE IF x = FInf THEN TRUE
    ELSE IF y = FInf THEN FALSE
    ELSE FCmp(x, y) >= 0

\* value < upper, for a float value and an int or infinite upper bound
BelowUpper(v, upper) ==
    IF upper = Inf THEN FLess(v, FInf) ELSE FLess(v, FFromInt(upper))

\* mutant: boundaries closed above, lower < value <= upper
get_surcharge_closed_above(v) ==
    IF FCmp(v, FFromInt(BANDS_2028[1].lower)) <= 0 THEN 0
    ELSE LET hit == {i \in 1..Len(BANDS_2028) :
                        /\ FCmp(v, FFromInt(BANDS_2028[i].lower)) > 0
                        /\ \/ BANDS_2028[i].upper = Inf
                           \/ FCmp(v, FFromInt(BANDS_2028[i].upper)) <= 0}
         IN  BANDS_2028[CHOOSE i \in hit : \A j \in hit : i <= j].charge

get_surcharge(v) ==
    IF FLess(v, FFromInt(BANDS_2028[1].lower)) THEN 0
    ELSE LET hit == {i \in 1..Len(BANDS_2028) :
                        /\ FAtLeast(v, FFromInt(BANDS_2028[i].lower))
                        /\ BelowUpper(v, BANDS_2028[i].upper)}
         IN  IF hit # {}
             THEN BANDS_2028[CHOOSE i \in hit : \A j \in hit : i <= j].charge
             ELSE BANDS_2028[Len(BANDS_2028)].charge

\* the module-level assignments of analyze_autumn_budget.py
ImportGlobals ==
    /\ UPRATING_2024_TO_2028_HPI = calculate_uprating_factor(HPI_GROWTH, 2024, 2028)
    /\ THRESHOLD_UPRATING_2026_TO_2028 = calculate_uprating_factor(CPI_GROWTH, 2026, 2028)
    /\ BANDS_2028 = UprateBands(THRESHOLD_UPRATING_2026_TO_2028)

\* the destinations of download_data.py: the three downloaded files, the
\* directory the archive is extracted to, the converted names file
Destinations == {"pp", "zip", "NSPL", "census", "names"}

\* download_data.py is not run
NoDownload ==
    /\ data_dir = [d \in Destinations |-> "absent"]
    /\ dl_pc = "idle" /\ success = TRUE /\ last_return = << >>
    /\ dl_report = "none" /\ dl_runs = 0

\* neither analysis script is run
NoAnalysis ==
    /\ script = None /\ pc = "idle"
    /\ pp_csv = << >> /\ lookup_csv = << >> /\ names_csv = << >> /\ census_xlsx = << >>
    /\ absent = {} /\ argsort_ties = "input_order"
    /\ const_names = << >> /\ postcode_lookup = << >> /\ households = << >>
    /\ threshold = 0 /\ df = << >> /\ joined = << >> /\ stats = << >>
    /\ files = << >> /\ stdout = << >>
    /\ previous_run = << >>
    /\ map_status = "none"

NoRun == NoAnalysis /\ NoDownload

NoFactorCall == growth_dict = << >> /\ from_year = 0 /\ to_year = 0 /\ factor = << >>
NoSurchargeCall == value = FZero /\ surcharge = << >>

(***************************************************************************)
(* Strings (postcodes) are sequences of one-character strings.             *)
(***************************************************************************)
Upper(c) ==
    CASE c = "s" -> "S" [] c = "w" -> "W" [] c = "e" -> "E" [] c = "n" -> "N"
      [] OTHER -> c

str_upper(s) == [i \in 1..Len(s) |-> Upper(s[i])]

IsSpace(c) == c \in {" ", "\t", "\n"}

RECURSIVE str_lstrip(_)
str_lstrip(s) ==
    IF s # << >> /\ IsSpace(Head(s)) THEN str_lstrip(Tail(s)) ELSE s

RECURSIVE str_rstrip(_)
str_rstrip(s) ==
    IF s # << >> /\ IsSpace(s[Len(s)])
    THEN str_rstrip(SubSeq(s, 1, Len(s) - 1)) ELSE s

\* str.strip(): leading and trailing whitespace only
str_strip(s) == str_rstrip(str_lstrip(s))

\* str.replace(' ', ''): every space character, wherever it is
str_replace_spaces(s) == SelectSeq(s, LAMBDA c : c # " ")

(***************************************************************************)
(* Data-frame helpers                                                      *)
(***************************************************************************)
RECURSIVE SumSeq(_)
SumSeq(q) == IF q = << >> THEN 0 ELSE Head(q) + SumSeq(Tail(q))

RECURSIVE FSumSeq(_)
FSumSeq(q) == IF q = << >> THEN FZero ELSE FAdd(FSumSeq(SubSeq(q, 1, Len(q) - 1)), q[Len(q)])

RECURSIVE Flatten(_)
Flatten(qq) == IF qq = << >> THEN << >> ELSE Head(qq) \o Flatten(Tail(qq))

Column(rows, F(_)) == [i \in 1..Len(rows) |-> F(rows[i])]

\* the positions 1..Len(keys) ordered by key, descending
\* (sort_values(ascending=False), kind='quicksort').  numpy's quicksort is not
\* a stable sort: equal keys come out in the order the build's argsort gives
\* them, here either their original order or the reverse of it.
RECURSIVE OrderDesc(_, _)
OrderDesc(keys, left) ==
    IF left = {} THEN << >>
    ELSE LET i == CHOOSE i \in left :
                     \A j \in left :
                        \/ keys[j] < keys[i]
                        \/ /\ keys[j] = keys[i]
                           /\ IF argsort_ties = "input_order" THEN i <= j ELSE j <= i
         IN  << i >> \o OrderDesc(keys, left \ {i})

SortDescBy(rows, keys) ==
    LET order == OrderDesc(keys, 1..Len(rows))
    IN  [k \in 1..Len(rows) |-> rows[order[k]]]

\* ascending order of a sequence of integers / of floats
RECURSIVE SortInts(_)
SortInts(q) ==
    IF q = << >> THEN << >>
    ELSE LET i == CHOOSE i \in 1..Len(q) : \A j \in 1..Len(q) : q[i] <= q[j]
         IN  << q[i] >> \o SortInts(SubSeq(q, 1, i - 1) \o SubSeq(q, i + 1, Len(q)))

RECURSIVE SortFloats(_)
SortFloats(q) ==
    IF q = << >> THEN << >>
    ELSE LET i == CHOOSE i \in 1..Len(q) : \A j \in 1..Len(q) : FCmp(q[i], q[j]) <= 0
         IN  << q[i] >> \o SortFloats(SubSeq(q, 1, i - 1) \o SubSeq(q, i + 1, Len(q)))

\* Series.median() of integers and of floats, as a float
MedianInts(q) ==
    LET srt == SortInts(q)
        n   == Len(q)
    IN  IF n % 2 = 1 THEN FFromInt(srt[(n + 1) \div 2])
        ELSE FDivInt(FFromInt(srt[n \div 2] + srt[n \div 2 + 1]), 2)

MedianFloats(q) ==
    LET srt == SortFloats(q)
        n   == Len(q)
    IN  IF n % 2 = 1 THEN srt[(n + 1) \div 2]
        ELSE FDivInt(FAdd(srt[n \div 2], srt[n \div 2 + 1]), 2)

\* dict(zip(codes, names)): a later row replaces an earlier one with its code
DictZip(rows) ==
    [c \in {rows[i].code : i \in 1..Len(rows)} |->
        rows[CHOOSE i \in 1..Len(rows) :
                /\ rows[i].code = c
                /\ \A j \in 1..Len(rows) : rows[j].code = c => j <= i].name]

\* Series.map(dict): a key the dict lacks maps to NaN
MapDict(d, k) == IF k \in DOMAIN d THEN d[k] ELSE NaN

\* the constituency names of the model in lexicographic order, the order in
\* which groupby() lists its groups; a missing key, where groupby keeps it
\* (dropna=False), comes last
NAME_ORDER == << "Aldershot", "Bath", "Chelsea" >>

GroupKeys(names) == SelectSeq(NAME_ORDER \o << NaN >>, LAMBDA n : n \in names)

(***************************************************************************)
(* analyze.py                                                              *)
(***************************************************************************)
FEE == 2000

\* load_postcode_mapping: the NSPL rows that have a constituency
load_postcode_mapping(rows) ==
    SelectSeq([i \in 1..Len(rows) |-> [pcds |-> rows[i].postcode, pcon |-> rows[i].code]],
              LAMBDA r : r.pcon # NaN)

\* load_household_data: drop the 'Does not apply' rows, sum per (code, name);
\* groupby lists the groups by code, then name
CENSUS_CODE_ORDER == << "K1", "K2", "K9" >>

\* mutant: the 'Does not apply' rows are summed with the others
load_household_data_keep_sentinel(rows) ==
    LET Rows(c, n) == SelectSeq(rows, LAMBDA r : r.code = c /\ r.name = n)
        Group(c, n) ==
            IF Rows(c, n) = << >> THEN << >>
            ELSE << [constituency_code |-> c, constituency_name |-> n,
                     total_households  |->
                         SumSeq(Column(Rows(c, n), LAMBDA r : r.Observation))] >>
    IN  Flatten([i \in 1..Len(CENSUS_CODE_ORDER) |->
                    Flatten([j \in 1..Len(NAME_ORDER) |->
                                Group(CENSUS_CODE_ORDER[i], NAME_ORDER[j])])])

load_household_data(rows) ==
    LET kept  == SelectSeq(rows, LAMBDA r : r.category # "Does not apply")
        Rows(c, n) == SelectSeq(kept, LAMBDA r : r.code = c /\ r.name = n)
        Group(c, n) ==
            IF Rows(c, n) = << >> THEN << >>
            ELSE << [constituency_code |-> c, constituency_name |-> n,
                     total_households  |->
                         SumSeq(Column(Rows(c, n), LAMBDA r : r.Observation))] >>
    IN  Flatten([i \in 1..Len(CENSUS_CODE_ORDER) |->
                    Flatten([j \in 1..Len(NAME_ORDER) |->
                                Group(CENSUS_CODE_ORDER[i], NAME_ORDER[j])])])

\* df = df[df['price'] >= threshold]  (mutant: a strict comparison)
FilterByThreshold_strict(rows, t) == SelectSeq(rows, LAMBDA r : r.price > t)

FilterByThreshold(rows, t) == SelectSeq(rows, LAMBDA r : r.price >= t)

\* the join key of a sale in analyze.py
SaleKey(postcode) == str_upper(str_strip(postcode))

\* df.merge(postcode_to_const, on='pcds', how='left'), then the name mapping:
\* one row per matching lookup row, or one row with a missing pcon
MatchConstituencies(rows, lookup, names) ==
    LET One(r) ==
            LET key == SaleKey(r.postcode)
                hit == SelectSeq(lookup, LAMBDA k : k.pcds = key)
                Row(pcon) == [price |-> r.price, postcode |-> r.postcode, pcds |-> key,
                              pcon |-> pcon, constituency_name |-> MapDict(names, pcon)]
            IN  IF hit = << >> THEN << Row(NaN) >>
                ELSE [i \in 1..Len(hit) |-> Row(hit[i].pcon)]
    IN  Flatten([i \in 1..Len(rows) |-> One(rows[i])])

\* mutant: groupby(..., dropna=False) keeps the rows without a name
MatchedRows_keep_unnamed(rows) == SelectSeq(rows, LAMBDA r : r.pcon # NaN)

\* the rows that enter the statistics: pcon present, and a name to group by
\* (groupby drops the rows whose key is missing)
MatchedRows(rows) ==
    SelectSeq(rows, LAMBDA r : r.pcon # NaN /\ r.constituency_name # NaN)

\* groupby('constituency_name').agg(count, mean, median, sum).round(0), the
\* revenue column and the sort by num_sales
ConstituencyStats(rows) ==
    LET m      == MatchedRows(rows)
        keys   == GroupKeys({m[i].constituency_name : i \in 1..Len(m)})
        Prices(n) == Column(SelectSeq(m, LAMBDA r : r.constituency_name = n),
                            LAMBDA r : r.price)
        Row(n) ==
            LET p == Prices(n)
            IN  [constituency_name |-> n,
                 num_sales    |-> Len(p),
                 mean_price   |-> FRound0(FDivInt(FFromInt(SumSeq(p)), Len(p))),
                 median_price |-> FRound0(MedianInts(p)),
                 total_value  |-> SumSeq(p),
                 estimated_annual_revenue |-> Len(p) * FEE]
        grouped == [i \in 1..Len(keys) |-> Row(keys[i])]
    IN  SortDescBy(grouped, Column(grouped, LAMBDA r : r.num_sales))

\* mutant: a missing household total reported as 0 per cent
PctRounded3_missing_as_zero(n, total) ==
    IF total = << >> THEN [kind |-> "num", thousandths |-> 0]
    ELSE IF total[1] = 0 THEN [kind |-> "inf", thousandths |-> 0]
    ELSE [kind |-> "num",
          thousandths |->
              FRound0(FMul(FMul(FDivInt(FFromInt(n), total[1]), FFromInt(100)),
                           FFromInt(1000)))]

\* (num_sales / total_households * 100).round(3), in thousandths
PctRounded3(n, total) ==
    IF total = << >> THEN [kind |-> "nan", thousandths |-> 0]
    ELSE IF total[1] = 0 THEN [kind |-> "inf", thousandths |-> 0]
    ELSE [kind |-> "num",
          thousandths |->
              FRound0(FMul(FMul(FDivInt(FFromInt(n), total[1]), FFromInt(100)),
                           FFromInt(1000)))]

\* sort key of a percentage, descending: infinity first, NaN last
PctKey(p) ==
    CASE p.kind = "nan" -> 0 - 1
      [] p.kind = "inf" -> 2000000000
      [] OTHER -> p.thousandths

\* const_stats.merge(households[...], left_index=True,
\* right_on='constituency_name', how='left'), the percentage and the sort
AddHouseholds(rows, hh) ==
    LET One(r) ==
            LET hit == SelectSeq(hh, LAMBDA h : h.constituency_name = r.constituency_name)
                Row(total) ==
                    [constituency_name |-> r.constituency_name,
                     num_sales    |-> r.num_sales,
                     mean_price   |-> r.mean_price,
                     median_price |-> r.median_price,
                     total_value  |-> r.total_value,
                     estimated_annual_revenue |-> r.estimated_annual_revenue,
                     total_households |-> total,
                     pct_households_affected |-> PctRounded3(r.num_sales, total)]
            IN  IF hit = << >> THEN << Row(<< >>) >>
                ELSE [i \in 1..Len(hit) |-> Row(<< hit[i].total_households >>)]
        merged == Flatten([i \in 1..Len(rows) |-> One(rows[i])])
    IN  SortDescBy(merged, Column(merged, LAMBDA r : r.num_sales))

\* the household_impact table
HouseholdImpact(rows) ==
    LET h == [i \in 1..Len(rows) |->
                [constituency_name |-> rows[i].constituency_name,
                 pct_households_affected |-> rows[i].pct_households_affected,
                 avg_loss_per_household |-> FEE]]
    IN  SortDescBy(h, Column(h, LAMBDA r : PctKey(r.pct_households_affected)))

\* output file names: a stem and the threshold label (threshold // 1_000_000)
\* mutant: the threshold label is left out of the file name
FileName_unlabelled(stem, label) == << stem, 0 >>

FileName(stem, label) == << stem, label >>

\* mutant: to_csv(..., mode='a') appends to a file that exists
WriteFile_append(fs, name, rows) ==
    IF name \in DOMAIN fs THEN (name :> (fs[name] \o rows)) @@ fs
    ELSE (name :> rows) @@ fs

\* DataFrame.to_csv(path): the file is created or replaced
WriteFile(fs, name, rows) == (name :> rows) @@ fs

(***************************************************************************)
(* analyze_autumn_budget.py                                                *)
(***************************************************************************)
\* load_postcode_mapping: the MySoc rows with their normalised postcode
load_postcode_mapping_mysoc(rows) ==
    [i \in 1..Len(rows) |->
        [postcode      |-> rows[i].postcode,
         short_code    |-> rows[i].code,
         postcode_norm |-> str_upper(str_replace_spaces(rows[i].postcode))]]

\* df['price_2028'] and the scope filter price_2028 >= threshold_2028
\* (mutant: a strict comparison), then each row's surcharge
ScopeRows_strict(rows) ==
    LET up == [i \in 1..Len(rows) |->
                 [price |-> rows[i].price, postcode |-> rows[i].postcode,
                  price_2028 |-> FMul(FFromInt(rows[i].price), UPRATING_2024_TO_2028_HPI)]]
        in == SelectSeq(up, LAMBDA r : FCmp(r.price_2028, FFromInt(BANDS_2028[1].lower)) > 0)
    IN  [i \in 1..Len(in) |->
            [price |-> in[i].price, postcode |-> in[i].postcode,
             price_2028 |-> in[i].price_2028,
             surcharge |-> get_surcharge(in[i].price_2028)]]

\* mutant: the scope filter compares with the 2026 threshold, not uprated
ScopeRows_threshold_2026(rows) ==
    LET up == [i \in 1..Len(rows) |->
                 [price |-> rows[i].price, postcode |-> rows[i].postcode,
                  price_2028 |-> FMul(FFromInt(rows[i].price), UPRATING_2024_TO_2028_HPI)]]
        in == SelectSeq(up, LAMBDA r : FCmp(r.price_2028, FFromInt(BANDS_2026[1].lower)) >= 0)
    IN  [i \in 1..Len(in) |->
            [price |-> in[i].price, postcode |-> in[i].postcode,
             price_2028 |-> in[i].price_2028,
             surcharge |-> get_surcharge(in[i].price_2028)]]

ScopeRows(rows) ==
    LET up == [i \in 1..Len(rows) |->
                 [price |-> rows[i].price, postcode |-> rows[i].postcode,
                  price_2028 |-> FMul(FFromInt(rows[i].price), UPRATING_2024_TO_2028_HPI)]]
        in == SelectSeq(up, LAMBDA r : FCmp(r.price_2028, FFromInt(BANDS_2028[1].lower)) >= 0)
    IN  [i \in 1..Len(in) |->
            [price |-> in[i].price, postcode |-> in[i].postcode,
             price_2028 |-> in[i].price_2028,
             surcharge |-> get_surcharge(in[i].price_2028)]]

\* the join key of a sale in analyze_autumn_budget.py
SaleKeyNorm(postcode) == str_upper(str_replace_spaces(postcode))

\* df_scope.merge(postcode_lookup[...], on='postcode_norm', how='left') and
\* the name mapping
MatchScope(rows, lookup, names) ==
    LET One(r) ==
            LET key == SaleKeyNorm(r.postcode)
                hit == SelectSeq(lookup, LAMBDA k : k.postcode_norm = key)
                Row(code) == [price |-> r.price, postcode |-> r.postcode,
                              price_2028 |-> r.price_2028, surcharge |-> r.surcharge,
                              postcode_norm |-> key, short_code |-> code,
                              constituency |-> MapDict(names, code)]
            IN  IF hit = << >> THEN << Row(NaN) >>
                ELSE [i \in 1..Len(hit) |-> Row(hit[i].short_code)]
    IN  Flatten([i \in 1..Len(rows) |-> One(rows[i])])

\* df_matched
ScopeMatched(rows) == SelectSeq(rows, LAMBDA r : r.constituency # NaN)

\* mutant: every property charged the lowest band's charge
SurchargeStats_lowest_charge(rows) ==
    LET m    == ScopeMatched(rows)
        keys == GroupKeys({m[i].constituency : i \in 1..Len(m)})
        Row(n) ==
            LET g == SelectSeq(m, LAMBDA r : r.constituency = n)
                p == Column(g, LAMBDA r : r.price_2028)
            IN  [constituency |-> n,
                 properties   |-> Len(g),
                 mean_price   |-> FRound0(FDivInt(FSumSeq(p), Len(g))),
                 median_price |-> FRound0(MedianFloats(p)),
                 total_value  |-> FRound0(FSumSeq(p)),
                 implied_surcharge |-> Len(g) * BANDS_2028[1].charge]
    IN  [i \in 1..Len(keys) |-> Row(keys[i])]

\* groupby('constituency').agg(...).round(0)
SurchargeStats(rows) ==
    LET m    == ScopeMatched(rows)
        keys == GroupKeys({m[i].constituency : i \in 1..Len(m)})
        Row(n) ==
            LET g == SelectSeq(m, LAMBDA r : r.constituency = n)
                p == Column(g, LAMBDA r : r.price_2028)
            IN  [constituency |-> n,
                 properties   |-> Len(g),
                 mean_price   |-> FRound0(FDivInt(FSumSeq(p), Len(g))),
                 median_price |-> FRound0(MedianFloats(p)),
                 total_value  |-> FRound0(FSumSeq(p)),
                 implied_surcharge |-> SumSeq(Column(g, LAMBDA r : r.surcharge))]
    IN  [i \in 1..Len(keys) |-> Row(keys[i])]

\* mutant: the share rounded to two decimals before the allocation
Allocate_rounded_share(rows) ==
    LET total_implied == SumSeq(Column(rows, LAMBDA r : r.implied_surcharge))
        Row(r) ==
            LET share == FDivInt(FFromInt(FRound0(FMul(FDivInt(FFromInt(r.implied_surcharge),
                                                                total_implied),
                                                        FFromInt(100)))), 100)
            IN  [constituency |-> r.constituency, properties |-> r.properties,
                 mean_price |-> r.mean_price, median_price |-> r.median_price,
                 total_value |-> r.total_value,
                 implied_surcharge |-> r.implied_surcharge,
                 share |-> share,
                 allocated_revenue |-> FRound0(FMul(share, FFromInt(OBR_REVENUE_2029_30)))]
    IN  [i \in 1..Len(rows) |-> Row(rows[i])]

\* share = implied_surcharge / total_implied and
\* allocated_revenue = (share * OBR_REVENUE_2029_30).round(0)
Allocate(rows) ==
    LET total_implied == SumSeq(Column(rows, LAMBDA r : r.implied_surcharge))
        Row(r) ==
            LET share == FDivInt(FFromInt(r.implied_surcharge), total_implied)
            IN  [constituency |-> r.constituency, properties |-> r.properties,
                 mean_price |-> r.mean_price, median_price |-> r.median_price,
                 total_value |-> r.total_value,
                 implied_surcharge |-> r.implied_surcharge,
                 share |-> share,
                 allocated_revenue |-> FRound0(FMul(share, FFromInt(OBR_REVENUE_2029_30)))]
    IN  [i \in 1..Len(rows) |-> Row(rows[i])]

\* mutant: share_pct rounded to a whole per cent
Summary_whole_percent(rows) ==
    [i \in 1..Len(rows) |->
        [constituency |-> rows[i].constituency,
         properties   |-> rows[i].properties,
         median_price |-> rows[i].median_price,
         implied_from_sales |-> rows[i].implied_surcharge,
         allocated_from_obr |-> rows[i].allocated_revenue,
         share_pct |-> 100 * FRound0(FMul(rows[i].share, FFromInt(100)))]]

\* the summary table of the __main__ block; share_pct in hundredths
Summary(rows) ==
    [i \in 1..Len(rows) |->
        [constituency |-> rows[i].constituency,
         properties   |-> rows[i].properties,
         median_price |-> rows[i].median_price,
         implied_from_sales |-> rows[i].implied_surcharge,
         allocated_from_obr |-> rows[i].allocated_revenue,
         share_pct |-> FRound0(FMul(FMul(rows[i].share, FFromInt(100)), FFromInt(100)))]]

(***************************************************************************)
(* Spec: one run of either script on bounded input files                   *)
(***************************************************************************)
MaxSales == 3

PC_SW_1 == << "S", "W", " ", "1" >>
PC_SW1  == << "S", "W", "1" >>
PC_sw1  == << "s", "w", "1" >>
PC_E_2  == << "E", " ", "2" >>
PC_N_3  == << "N", " ", "3" >>

Sale(price, postcode) == [price |-> price, postcode |-> postcode]

\* sale records around the thresholds of each script
SalesDomain(s) ==
    IF s = "analyze"
    THEN {Sale(1000000, PC_SW_1), Sale(1500000, PC_SW_1), Sale(2000000, PC_E_2),
          Sale(2000000, PC_sw1), Sale(5000000, PC_N_3)}
    ELSE {Sale(1888820, PC_SW_1), Sale(1888821, PC_SW_1), Sale(2400000, PC_E_2),
          Sale(6000000, PC_E_2), Sale(2000000, PC_sw1), Sale(5000000, PC_N_3)}

Key(postcode, code) == [postcode |-> postcode, code |-> code]

\* postcode files: one row per postcode; a key without its space and a row
\* without a constituency; the same row twice
LookupPlain == << Key(PC_SW_1, "C1"), Key(PC_E_2, "C2"), Key(PC_N_3, "C3") >>

LookupFiles ==
    { LookupPlain,
      << Key(PC_SW1, "C1"), Key(PC_E_2, NaN), Key(PC_N_3, "C3") >>,
      << Key(PC_SW_1, "C1"), Key(PC_E_2, "C2"), Key(PC_SW_1, "C1") >> }

Name(code, name) == [code |-> code, name |-> name]

\* constituency name files: three constituencies; two codes under one name
\* and a code the file lacks
NamesPlain == << Name("C1", "Chelsea"), Name("C2", "Bath"), Name("C3", "Aldershot") >>

NameFiles ==
    { NamesPlain,
      << Name("C1", "Bath"), Name("C2", "Bath") >> }

Obs(code, name, category, n) ==
    [code |-> code, name |-> name, category |-> category, Observation |-> n]

\* census sheets: a 'Does not apply' row and a constituency without
\* households; one name under two codes
CensusFiles ==
    { << Obs("K1", "Aldershot", "One person", 30000),
         Obs("K1", "Aldershot", "Does not apply", 500),
         Obs("K1", "Aldershot", "Family", 10000),
         Obs("K2", "Bath", "One person", 0) >>,
      << Obs("K1", "Bath", "One person", 20000),
         Obs("K9", "Bath", "One person", 30000),
         Obs("K2", "Chelsea", "Family", 25000) >> }

SeqsUpTo(S, n) == UNION {[1..k -> S] : k \in 0..n}

\* the files each script requires, in the order it checks for them
RequiredFiles(s) ==
    IF s = "analyze" THEN << "names", "lookup", "census", "pp" >>
    ELSE << "lookup", "names", "pp" >>

\* runs with up to MaxTied sales on a build whose argsort reverses equal keys
MaxTied == 2

\* the input files of a run: every combination of the files above on a build
\* that keeps equal keys in order; the plain files on a build that does not;
\* a run with one required file absent; a run with one reference file that
\* holds a header and no row
InitFiles ==
    \/ /\ absent = {} /\ argsort_ties = "input_order"
       /\ pp_csv \in SeqsUpTo(SalesDomain(script), MaxSales)
       /\ lookup_csv \in LookupFiles
       /\ names_csv \in NameFiles
       /\ census_xlsx \in (IF script = "analyze" THEN CensusFiles ELSE {<< >>})
    \/ /\ absent = {} /\ argsort_ties = "reversed"
       /\ pp_csv \in SeqsUpTo(SalesDomain(script), MaxTied)
       /\ lookup_csv = LookupPlain
       /\ names_csv = NamesPlain
       /\ census_xlsx \in (IF script = "analyze" THEN CensusFiles ELSE {<< >>})
    \/ /\ argsort_ties = "input_order"
       /\ \E k \in 1..Len(RequiredFiles(script)) : absent = {RequiredFiles(script)[k]}
       /\ pp_csv \in (IF "pp" \in absent THEN {<< >>}
                      ELSE SeqsUpTo(SalesDomain(script), 1))
       /\ lookup_csv = (IF "lookup" \in absent THEN << >> ELSE LookupPlain)
       /\ names_csv = (IF "names" \in absent THEN << >> ELSE NamesPlain)
       /\ census_xlsx \in (IF script = "analyze" /\ "census" \notin absent
                           THEN CensusFiles ELSE {<< >>})
    \/ /\ absent = {} /\ argsort_ties = "input_order"
       /\ pp_csv \in SeqsUpTo(SalesDomain(script), 1)
       /\ \E empty \in {"lookup", "names", "census"} :
             /\ empty = "census" => script = "analyze"
             /\ lookup_csv = (IF empty = "lookup" THEN << >> ELSE LookupPlain)
             /\ names_csv = (IF empty = "names" THEN << >> ELSE NamesPlain)
             /\ census_xlsx \in (IF script = "analyze" /\ empty # "census"
                                 THEN CensusFiles ELSE {<< >>})

Init ==
    /\ ImportGlobals /\ NoFactorCall /\ NoSurchargeCall
    /\ script \in {"analyze", "autumn"}
    /\ pc = "start"
    /\ InitFiles
    /\ const_names = << >> /\ postcode_lookup = << >> /\ households = << >>
    /\ threshold = 0 /\ df = << >> /\ joined = << >> /\ stats = << >>
    /\ files = << >> /\ stdout = << >>
    /\ previous_run = << >>
    /\ map_status = "none"
    /\ NoDownload

\* the first required file, from position k on, that check_file (or the glob
\* of load_postcode_mapping) does not find
FirstAbsent(order) ==
    order[CHOOSE k \in 1..Len(order) :
             order[k] \in absent /\ \A j \in 1..(k - 1) : order[j] \notin absent]

\* check_file: a required file is missing, the message names it, sys.exit(1).
\* analyze.py checks the reference files in its loaders and the sales file in
\* analyze_threshold; analyze_autumn_budget.py checks all of them in analyze()
\* before it computes.
CheckFileFails ==
    /\ \/ script = "analyze" /\ pc = "start" /\ absent \ {"pp"} # {}
       \/ script = "analyze" /\ pc = "loaded" /\ absent # {}
       \/ script = "autumn" /\ pc = "start" /\ absent # {}
    /\ stdout' = Append(stdout,
                        [error |-> "Missing",
                         file  |-> FirstAbsent(IF pc = "loaded" THEN << "pp" >>
                                               ELSE RequiredFiles(script))])
    /\ pc' = "exit_1"
    /\ UNCHANGED << script, inputs, platform, history, downloader, maps, globals, locals, files, fcall, scall >>

\* analyze.py __main__: the three loaders
LoadReference ==
    /\ script = "analyze" /\ pc = "start"
    /\ absent \ {"pp"} = {}
    /\ const_names' = DictZip(names_csv)
    /\ postcode_lookup' = load_postcode_mapping(lookup_csv)
    /\ households' = load_household_data(census_xlsx)
    /\ pc' = "loaded"
    /\ UNCHANGED << script, inputs, platform, history, downloader, maps, globals, threshold, df, joined, stats,
                    outputs, fcall, scall >>

\* analyze.py: one call of analyze_threshold and the line __main__ prints
AnalyzeThreshold(t, at, to) ==
    /\ script = "analyze" /\ pc = at
    /\ absent = {}
    /\ \E filtered \in {FilterByThreshold(pp_csv, t)} :
       \E merged \in {MatchConstituencies(filtered, postcode_lookup, const_names)} :
       \E result \in {AddHouseholds(ConstituencyStats(merged), households)} :
           /\ threshold' = t
           /\ df' = filtered
           /\ joined' = merged
           /\ stats' = result
           /\ files' = WriteFile(WriteFile(files,
                                           FileName("constituency_impact", t \div 1000000),
                                           result),
                                 FileName("household_impact", t \div 1000000),
                                 HouseholdImpact(result))
           /\ stdout' = Append(stdout,
                               [constituencies |-> Len(result),
                                sales |-> SumSeq(Column(result, LAMBDA r : r.num_sales))])
    /\ pc' = to
    /\ UNCHANGED << script, inputs, platform, history, downloader, maps, globals, const_names, postcode_lookup,
                    households, fcall, scall >>

\* analyze_autumn_budget.py: analyze() on an empty sales file divides
\* len(df_scope) by total_sales = 0 (ZeroDivisionError)
AnalyzeNoSales ==
    /\ script = "autumn" /\ pc = "start"
    /\ absent = {}
    /\ pp_csv = << >>
    /\ postcode_lookup' = load_postcode_mapping_mysoc(lookup_csv)
    /\ const_names' = DictZip(names_csv)
    /\ pc' = "ZeroDivisionError"
    /\ UNCHANGED << script, inputs, platform, history, downloader, maps, globals, households, threshold, df, joined,
                    stats, outputs, fcall, scall >>

\* analyze_autumn_budget.py: analyze()
Analyze ==
    /\ script = "autumn" /\ pc = "start"
    /\ absent = {}
    /\ pp_csv # << >>
    /\ \E lookup \in {load_postcode_mapping_mysoc(lookup_csv)} :
       \E names \in {DictZip(names_csv)} :
       \E scope \in {ScopeRows(pp_csv)} :
       \E merged \in {MatchScope(scope, lookup, names)} :
       \E alloc \in {Allocate(SurchargeStats(merged))} :
           /\ postcode_lookup' = lookup
           /\ const_names' = names
           /\ threshold' = BANDS_2028[1].lower
           /\ df' = scope
           /\ joined' = merged
           /\ stats' = SortDescBy(alloc, Column(alloc, LAMBDA r : r.properties))
           /\ stdout' = Append(stdout,
                               [total_sales |-> Len(pp_csv),
                                in_scope    |-> Len(scope),
                                matched     |-> Len(ScopeMatched(merged)),
                                merged_rows |-> Len(merged)])
    /\ pc' = "analyzed"
    /\ UNCHANGED << script, inputs, platform, history, downloader, maps, globals, households, files, fcall, scall >>

\* analyze_autumn_budget.py __main__: the two output files and the results
SaveOutputs ==
    /\ script = "autumn" /\ pc = "analyzed"
    /\ files' = WriteFile(WriteFile(files,
                                    FileName("constituency_surcharge_impact", 0), stats),
                          FileName("constituency_surcharge_summary", 0), Summary(stats))
    /\ stdout' = Append(stdout,
                        [constituencies |-> Len(stats),
                         properties |-> SumSeq(Column(stats, LAMBDA r : r.properties)),
                         allocated  |-> SumSeq(Column(stats, LAMBDA r : r.allocated_revenue))])
    /\ pc' = "done"
    /\ UNCHANGED << script, inputs, platform, history, downloader, maps, globals, locals, fcall, scall >>

Next ==
    \/ LoadReference
    \/ AnalyzeThreshold(1500000, "loaded", "stats_1_5m")
    \/ AnalyzeThreshold(2000000, "stats_1_5m", "done")
    \/ AnalyzeNoSales
    \/ Analyze
    \/ SaveOutputs
    \/ CheckFileFails

Spec == Init /\ [][Next]_vars

(***************************************************************************)
(* SpecRerun: the script run a second time in the same directory, on the   *)
(* same input files and the same build; the output files of the first run  *)
(* are still on disk                                                       *)
(***************************************************************************)
MaxRerunSales == 2

Finished == pc \in {"done", "exit_1", "ZeroDivisionError"}

InitRerun == Init /\ Len(pp_csv) <= MaxRerunSales

\* a new process runs __main__ from its first line: no table is loaded and
\* nothing is printed yet; the files on disk stay
Rerun ==
    /\ Finished
    /\ previous_run = << >>
    /\ previous_run' = << [files |-> files, stdout |-> stdout] >>
    /\ pc' = "start"
    /\ const_names' = << >> /\ postcode_lookup' = << >> /\ households' = << >>
    /\ threshold' = 0 /\ df' = << >> /\ joined' = << >> /\ stats' = << >>
    /\ stdout' = << >>
    /\ UNCHANGED << script, inputs, platform, downloader, maps, globals, files, fcall, scall >>

NextRerun ==
    \/ Next
    \/ Rerun

SpecRerun == InitRerun /\ [][NextRerun]_vars

(***************************************************************************)
(* SpecMaps: an analysis script, then the map script that reads its output *)
(***************************************************************************)
MaxMapSales == 1

\* the header lines of the files the analysis scripts write
ImpactColumns ==
    {"num_sales", "mean_price", "median_price", "total_value",
     "estimated_annual_revenue", "constituency_name", "total_households",
     "pct_households_affected"}

SummaryColumns ==
    {"constituency", "properties", "median_price", "implied_from_sales",
     "allocated_from_obr", "share_pct"}

\* the columns pd.read_csv finds in a written file
ColumnsRead(rows, header) == IF rows = << >> THEN header ELSE DOMAIN rows[1]

\* the columns the map scripts select
HexMapReads == {"constituency", "properties", "revenue"}
D3MapReads  == {"constituency", "share_pct", "properties", "allocated_from_obr"}

InitMaps == Init /\ Len(pp_csv) <= MaxMapSales

\* create_mansion_tax_map.py main(): for '1m' and '2m', load_impact_data and
\* create_hex_map; selecting a column the file lacks raises KeyError
CreateHexMaps ==
    /\ script = "analyze" /\ pc = "done"
    /\ map_status = "none"
    /\ map_status' =
          IF \A label \in {1, 2} :
                 FileName("constituency_impact", label) \in DOMAIN files
                     => HexMapReads \subseteq
                            ColumnsRead(files[FileName("constituency_impact", label)],
                                        ImpactColumns)
          THEN "written" ELSE "KeyError"
    /\ UNCHANGED << script, pc, inputs, platform, history, downloader, globals, locals,
                    outputs, fcall, scall >>

\* create_surcharge_d3_map.py main(): load_impact_data and
\* generate_d3_map_html
GenerateD3Map ==
    /\ script = "autumn" /\ pc = "done"
    /\ map_status = "none"
    /\ map_status' =
          IF FileName("constituency_surcharge_summary", 0) \in DOMAIN files
                => D3MapReads \subseteq
                       ColumnsRead(files[FileName("constituency_surcharge_summary", 0)],
                                   SummaryColumns)
          THEN "written" ELSE "KeyError"
    /\ UNCHANGED << script, pc, inputs, platform, history, downloader, globals, locals,
                    outputs, fcall, scall >>

NextMaps ==
    \/ Next
    \/ CreateHexMaps
    \/ GenerateD3Map

SpecMaps == InitMaps /\ [][NextMaps]_vars

(***************************************************************************)
(* SpecDownload: download_data.py, run up to MaxDownloadRuns times in the  *)
(* same directory.  A request fails, a transfer completes, or a transfer   *)
(* fails after part of the file is written.                                *)
(***************************************************************************)
MaxDownloadRuns == 2

InitDownload ==
    /\ ImportGlobals /\ NoAnalysis /\ NoFactorCall /\ NoSurchargeCall
    /\ data_dir = [d \in Destinations |-> "absent"]
    /\ dl_pc = "pp" /\ success = TRUE /\ last_return = << >>
    /\ dl_report = "none" /\ dl_runs = 1

Returns(dest, result) == << [dest |-> dest, result |-> result] >>

\* download(url, dest, desc) and the statement of the module body that calls
\* it: dest exists, and True is returned at once; the request fails, False is
\* returned and success is cleared; the transfer completes; or the transfer
\* raises after chunks were written to dest, which no handler catches
Download(step, dest, ok, failed) ==
    /\ dl_pc = step
    /\ \/ /\ data_dir[dest] # "absent"
          /\ last_return' = Returns(dest, TRUE)
          /\ dl_pc' = ok
          /\ UNCHANGED << data_dir, success >>
       \/ /\ data_dir[dest] = "absent"
          /\ last_return' = Returns(dest, FALSE)
          /\ success' = FALSE
          /\ dl_pc' = failed
          /\ UNCHANGED data_dir
       \/ /\ data_dir[dest] = "absent"
          /\ data_dir' = [data_dir EXCEPT ![dest] = "complete"]
          /\ last_return' = Returns(dest, TRUE)
          /\ dl_pc' = ok
          /\ UNCHANGED success
       \/ /\ data_dir[dest] = "absent"
          /\ data_dir' = [data_dir EXCEPT ![dest] = "partial"]
          /\ dl_pc' = "crashed"
          /\ UNCHANGED << success, last_return >>
    /\ UNCHANGED << dl_report, dl_runs >>
    /\ UNCHANGED << script, pc, inputs, platform, history, maps, globals, locals, outputs,
                    fcall, scall >>

\* extract_nspl_zip(), whose result the module body ignores: the directory
\* has entries, and nothing is done; the archive is not a complete zip file
\* and ZipFile raises; every member is written; or writing a member fails
ExtractNspl ==
    /\ dl_pc = "extract"
    /\ \/ /\ data_dir["NSPL"] # "absent"
          /\ dl_pc' = "census"
          /\ UNCHANGED data_dir
       \/ /\ data_dir["NSPL"] = "absent" /\ data_dir["zip"] = "partial"
          /\ dl_pc' = "crashed"
          /\ UNCHANGED data_dir
       \/ /\ data_dir["NSPL"] = "absent" /\ data_dir["zip"] = "complete"
          /\ data_dir' = [data_dir EXCEPT !["NSPL"] = "complete"]
          /\ dl_pc' = "census"
       \/ /\ data_dir["NSPL"] = "absent" /\ data_dir["zip"] = "complete"
          /\ data_dir' = [data_dir EXCEPT !["NSPL"] = "partial"]
          /\ dl_pc' = "crashed"
    /\ UNCHANGED << success, last_return, dl_report, dl_runs >>
    /\ UNCHANGED << script, pc, inputs, platform, history, maps, globals, locals, outputs,
                    fcall, scall >>

\* download_and_convert_constituencies(): the file exists; the request or
\* the conversion fails before the file is opened; the file is written; or
\* the conversion fails while rows are written (every exception is caught)
DownloadNames ==
    /\ dl_pc = "names"
    /\ \/ /\ data_dir["names"] # "absent"
          /\ UNCHANGED << data_dir, success >>
       \/ /\ data_dir["names"] = "absent"
          /\ success' = FALSE
          /\ UNCHANGED data_dir
       \/ /\ data_dir["names"] = "absent"
          /\ data_dir' = [data_dir EXCEPT !["names"] = "complete"]
          /\ UNCHANGED success
       \/ /\ data_dir["names"] = "absent"
          /\ data_dir' = [data_dir EXCEPT !["names"] = "partial"]
          /\ success' = FALSE
    /\ dl_pc' = "report"
    /\ UNCHANGED << last_return, dl_report, dl_runs >>
    /\ UNCHANGED << script, pc, inputs, platform, history, maps, globals, locals, outputs,
                    fcall, scall >>

\* the closing message
Report ==
    /\ dl_pc = "report"
    /\ dl_report' = IF success THEN "complete" ELSE "failed"
    /\ dl_pc' = "finished"
    /\ UNCHANGED << data_dir, success, last_return, dl_runs >>
    /\ UNCHANGED << script, pc, inputs, platform, history, maps, globals, locals, outputs,
                    fcall, scall >>

\* the script is started again in the same directory
RunAgain ==
    /\ dl_pc \in {"finished", "crashed"}
    /\ dl_runs < MaxDownloadRuns
    /\ dl_runs' = dl_runs + 1
    /\ dl_pc' = "pp" /\ success' = TRUE /\ last_return' = << >> /\ dl_report' = "none"
    /\ UNCHANGED data_dir
    /\ UNCHANGED << script, pc, inputs, platform, history, maps, globals, locals, outputs,
                    fcall, scall >>

NextDownload ==
    \/ Download("pp", "pp", "nspl", "nspl")
    \/ Download("nspl", "zip", "extract", "census")
    \/ ExtractNspl
    \/ Download("census", "census", "names", "names")
    \/ DownloadNames
    \/ Report
    \/ RunAgain

SpecDownload == InitDownload /\ [][NextDownload]_vars

(***************************************************************************)
(* SpecFactor: calls of calculate_uprating_factor on bounded growth tables *)
(***************************************************************************)
FirstYear == 2024
MaxSpan   == 2
Years     == FirstYear .. FirstYear + MaxSpan
RateTenths == {0, 25, 29}

\* tables holding a rate for any subset of the years
GrowthTables(rates) ==
    UNION {[ys -> rates] : ys \in SUBSET Years}

InitFactor ==
    /\ ImportGlobals /\ NoRun /\ NoSurchargeCall
    /\ LET rates == {FLit(t) : t \in RateTenths}
       IN  growth_dict \in GrowthTables(rates)
    /\ from_year \in Years
    /\ to_year \in Years
    /\ factor = << >>

CallFactor ==
    /\ factor = << >>
    /\ factor' = << calculate_uprating_factor(growth_dict, from_year, to_year) >>
    /\ UNCHANGED << script, pc, inputs, platform, history, downloader, maps, globals, locals, outputs, scall,
                    growth_dict, from_year, to_year >>

NextFactor == CallFactor
SpecFactor == InitFactor /\ [][NextFactor]_vars

(***************************************************************************)
(* SpecSurcharge: calls of get_surcharge on values around the band bounds  *)
(***************************************************************************)
Margin == 6

InitSurcharge ==
    /\ ImportGlobals /\ NoRun /\ NoFactorCall
    /\ \E i \in 1..Len(BANDS_2028), d \in (0 - Margin)..Margin, h \in {0, 1} :
          value = FDivInt(FFromInt(2 * (BANDS_2028[i].lower + d) + h), 2)
    /\ surcharge = << >>

CallSurcharge ==
    /\ surcharge = << >>
    /\ surcharge' = << get_surcharge(value) >>
    /\ UNCHANGED << script, pc, inputs, platform, history, downloader, maps, globals, locals, outputs, fcall, value >>

NextSurcharge == CallSurcharge
SpecSurcharge == InitSurcharge /\ [][NextSurcharge]_vars

(***************************************************************************)
(* SpecBands: get_surcharge under band lists as BANDS_2026 might be edited *)
(***************************************************************************)
Band(lower, upper, charge) == [lower |-> lower, upper |-> upper, charge |-> charge]

\* BANDS_2026 as it is; without its second band (a gap); with its first two
\* bands exchanged (lower bounds not increasing)
BandLists ==
    { BANDS_2026,
      << BANDS_2026[1], BANDS_2026[3], BANDS_2026[4] >>,
      << BANDS_2026[2], BANDS_2026[1], BANDS_2026[3], BANDS_2026[4] >> }

\* the bounds of a band list
BandBounds(bands) ==
    {bands[i].lower : i \in 1..Len(bands)}
        \cup {bands[i].upper : i \in {j \in 1..Len(bands) : bands[j].upper # Inf}}

InitBands ==
    /\ UPRATING_2024_TO_2028_HPI = calculate_uprating_factor(HPI_GROWTH, 2024, 2028)
    /\ THRESHOLD_UPRATING_2026_TO_2028 = calculate_uprating_factor(CPI_GROWTH, 2026, 2028)
    /\ \E bands \in BandLists :
          BANDS_2028 = UprateBandList(bands, THRESHOLD_UPRATING_2026_TO_2028)
    /\ NoRun /\ NoFactorCall
    /\ \E b \in BandBounds(BANDS_2028), d \in (0 - Margin)..Margin :
          value = FFromInt(b + d)
    /\ surcharge = << >>

NextBands == CallSurcharge
SpecBands == InitBands /\ [][NextBands]_vars

(***************************************************************************)
(* SpecScope: get_surcharge called on its own, on values around the bounds *)
(* and on the floats that are no finite number, and analyze() of           *)
(* analyze_autumn_budget.py on short sales files                           *)
(***************************************************************************)
MaxScopeSales == 2
ScopeMargin == 2

InitScope ==
    \/ /\ ImportGlobals /\ NoRun /\ NoFactorCall
       /\ surcharge = << >>
       /\ \/ \E i \in 1..Len(BANDS_2028), d \in (0 - ScopeMargin)..ScopeMargin :
                value = FFromInt(BANDS_2028[i].lower + d)
          \/ value \in {FZero, FInf, FNaN}
    \/ /\ Init
       /\ script = "autumn"
       /\ Len(pp_csv) <= MaxScopeSales

NextScope ==
    \/ CallSurcharge
    \/ CheckFileFails
    \/ AnalyzeNoSales
    \/ Analyze
    \/ SaveOutputs

SpecScope == InitScope /\ [][NextScope]_vars

(***************************************************************************)
(* Claims about calculate_uprating_factor (SpecFactor)                     *)
(***************************************************************************)
GrowthTerm(growth, y) == FAdd(F1, FDivInt(growth[y], 100))

\* (1 + rate/100) multiplied over the periods y with from < y <= to, in order
RECURSIVE ProductThrough(_, _, _)
ProductThrough(growth, from, to) ==
    IF to <= from THEN F1
    ELSE FMul(ProductThrough(growth, from, to - 1), GrowthTerm(growth, to))

Returned(r) == r # << >>
TableCovers(growth, from, to) == \A y \in (from + 1)..to : y \in DOMAIN growth

\* C5 as stated: the factor is the product over the periods strictly between
\* the base period and the target period (from < y < to).
C5_ProductStrictlyBetween ==
    (Returned(factor) /\ TableCovers(growth_dict, from_year, to_year))
        => factor[1] = ProductThrough(growth_dict, from_year, to_year - 1)

\* C5 amended: the factor is the product of (1 + rate/100) over the periods
\* after the base period up to and including the target period
\* (from < y <= to); the base period's own rate contributes no growth.
C5_ProductThroughTarget ==
    (Returned(factor) /\ TableCovers(growth_dict, from_year, to_year))
        => factor[1] = ProductThrough(growth_dict, from_year, to_year)

C5_Witness ==
    /\ Returned(factor)
    /\ to_year = from_year + 2
    /\ TableCovers(growth_dict, from_year, to_year)
    /\ from_year \in DOMAIN growth_dict
    /\ growth_dict[from_year] = FLit(29)
    /\ growth_dict[to_year] = FLit(25)
    /\ factor[1] = FMul(GrowthTerm(growth_dict, from_year + 1),
                        GrowthTerm(growth_dict, to_year))

\* C6: the factor from a period to itself is exactly 1.0, whatever rate the
\* table holds for the period, and also when the table has no entry for it.
C6_IdentityFactor ==
    (Returned(factor) /\ from_year = to_year) => factor[1] = F1

C6_Witness ==
    /\ Returned(factor)
    /\ from_year = to_year
    /\ from_year \in DOMAIN growth_dict
    /\ growth_dict[from_year] = FLit(29)
    /\ factor = << F1 >>

C6_WitnessNoEntry ==
    /\ Returned(factor)
    /\ from_year = to_year
    /\ from_year \notin DOMAIN growth_dict
    /\ factor = << F1 >>

(***************************************************************************)
(* Claims about get_surcharge (SpecSurcharge)                              *)
(***************************************************************************)
InBand(v, band) ==
    FCmp(v, FFromInt(band.lower)) >= 0 /\ BelowUpper(v, band.upper)

\* C2: a value at or above the lowest lower bound is charged the charge of
\* the one band with lower <= value < upper, and a value equal to the bound
\* between two bands is charged the upper band's charge, not the lower's.
C2_HalfOpenBands ==
    (Returned(surcharge) /\ FCmp(value, FFromInt(BANDS_2028[1].lower)) >= 0)
        => /\ Cardinality({i \in 1..Len(BANDS_2028) : InBand(value, BANDS_2028[i])}) = 1
           /\ \A i \in 1..Len(BANDS_2028) :
                 InBand(value, BANDS_2028[i]) => surcharge[1] = BANDS_2028[i].charge
           /\ \A i \in 2..Len(BANDS_2028) :
                 value = FFromInt(BANDS_2028[i].lower)
                     => /\ surcharge[1] = BANDS_2028[i].charge
                        /\ surcharge[1] # BANDS_2028[i - 1].charge

C2_Witness ==
    /\ value = FFromInt(BANDS_2028[2].lower)
    /\ value = FFromInt(BANDS_2028[1].upper)
    /\ surcharge = << 3500 >>

(***************************************************************************)
(* Claims about the two analysis runs (Spec)                               *)
(***************************************************************************)
AnalyzeRan == script = "analyze" /\ pc \in {"stats_1_5m", "done"}
AutumnRan  == script = "autumn" /\ pc \in {"analyzed", "done"}

Abs(x) == IF x < 0 THEN 0 - x ELSE x

Count(q, P(_)) == Cardinality({i \in 1..Len(q) : P(q[i])})

\* C1: with at least one group, the allocations add up to the external total
\* estimate within one unit per group, each allocation being
\* round(share * total) with share = the group's implied surcharge over the
\* implied surcharge of all groups.
C1_AllocationConservesTotal ==
    (AutumnRan /\ Len(stats) >= 1)
        => LET total_implied == SumSeq(Column(stats, LAMBDA r : r.implied_surcharge))
               allocated     == SumSeq(Column(stats, LAMBDA r : r.allocated_revenue))
           IN  /\ Abs(allocated - OBR_REVENUE_2029_30) <= Len(stats)
               /\ \A i \in 1..Len(stats) :
                     /\ stats[i].share = FDivInt(FFromInt(stats[i].implied_surcharge),
                                                 total_implied)
                     /\ stats[i].allocated_revenue =
                            FRound0(FMul(stats[i].share, FFromInt(OBR_REVENUE_2029_30)))

\* three groups whose rounded allocations do not add up to the total exactly
C1_Witness ==
    /\ AutumnRan
    /\ Len(stats) = 3
    /\ SumSeq(Column(stats, LAMBDA r : r.allocated_revenue)) # OBR_REVENUE_2029_30

\* the one normalisation rule of the specification: no whitespace, upper case
Normalized(postcode) == str_upper(SelectSeq(postcode, LAMBDA c : ~IsSpace(c)))

\* the names of the groups of the result table
GroupNames ==
    IF script = "analyze"
    THEN {stats[i].constituency_name : i \in 1..Len(stats)}
    ELSE {stats[i].constituency : i \in 1..Len(stats)}

\* the index rows that resolve to a constituency of the directory
Resolving(postcode) ==
    {k \in 1..Len(lookup_csv) :
        /\ Normalized(lookup_csv[k].postcode) = Normalized(postcode)
        /\ lookup_csv[k].code \in DOMAIN const_names}

\* C3 as stated: both scripts normalise index keys and sale postcodes by the
\* same rule, so a filtered sale whose postcode differs from an index key
\* only in whitespace or letter case appears in the group of its name.
C3_SameNormalizationBothSides ==
    (AnalyzeRan \/ AutumnRan)
        => \A i \in 1..Len(df) : \A k \in Resolving(df[i].postcode) :
              const_names[lookup_csv[k].code] \in GroupNames

\* analyze.py: a filtered sale "SW 1", the index key "SW1", and no group
C3_Witness ==
    /\ AnalyzeRan
    /\ \E i \in 1..Len(df) :
          /\ df[i].postcode = PC_SW_1
          /\ \E k \in Resolving(df[i].postcode) : lookup_csv[k].postcode = PC_SW1
    /\ stats = << >>

\* the matched rows of the joined table, and those grouped under a name
JoinedMatched ==
    IF script = "analyze" THEN MatchedRows(joined) ELSE ScopeMatched(joined)

JoinedName(r) == IF script = "analyze" THEN r.constituency_name ELSE r.constituency

JoinedOf(name) == SelectSeq(JoinedMatched, LAMBDA r : JoinedName(r) = name)

\* a filtered sale is matched when an index row with the join key the script
\* gives it resolves to a constituency of the directory
IsMatchedRecord(r) ==
    IF script = "analyze"
    THEN \E k \in 1..Len(postcode_lookup) :
            /\ postcode_lookup[k].pcds = SaleKey(r.postcode)
            /\ postcode_lookup[k].pcon \in DOMAIN const_names
    ELSE \E k \in 1..Len(postcode_lookup) :
            /\ postcode_lookup[k].postcode_norm = SaleKeyNorm(r.postcode)
            /\ postcode_lookup[k].short_code \in DOMAIN const_names

\* C4 as stated: the join neither duplicates nor drops a matched record; the
\* joined table has exactly one row per filtered sale that has a match, also
\* when the index holds several rows for one postcode.
C4_JoinOneRowPerMatchedRecord ==
    (AnalyzeRan \/ AutumnRan)
        => Len(JoinedMatched) = Count(df, IsMatchedRecord)

\* one filtered sale, two joined rows, a group that counts two
C4_Witness ==
    /\ AnalyzeRan \/ AutumnRan
    /\ Len(df) = 1
    /\ Len(JoinedMatched) = 2
    /\ Len(stats) = 1
    /\ IF script = "analyze" THEN stats[1].num_sales = 2 ELSE stats[1].properties = 2

SameSale(a, b) == a.price = b.price /\ a.postcode = b.postcode

\* the price the running script compares with its threshold, as a float
AdjustedPrice(r) ==
    IF script = "analyze" THEN FFromInt(r.price)
    ELSE FMul(FFromInt(r.price), UPRATING_2024_TO_2028_HPI)

ReachesThreshold(r) == FCmp(AdjustedPrice(r), FFromInt(threshold)) >= 0

\* C7: the filter keeps a sale if and only if its (time-adjusted) price is at
\* or above the threshold, a price equal to the threshold included, and no
\* sale below the threshold reaches the join or a group statistic.
C7_KeepsAtOrAboveThreshold ==
    (AnalyzeRan \/ AutumnRan)
        => /\ \A i \in 1..Len(pp_csv) :
                 Count(df, LAMBDA r : SameSale(r, pp_csv[i])) =
                     IF ReachesThreshold(pp_csv[i])
                     THEN Count(pp_csv, LAMBDA r : SameSale(r, pp_csv[i]))
                     ELSE 0
           /\ \A i \in 1..Len(df) : \E j \in 1..Len(pp_csv) : SameSale(df[i], pp_csv[j])
           /\ \A i \in 1..Len(joined) : ReachesThreshold(joined[i])
           /\ \A i \in 1..Len(stats) :
                 /\ stats[i].mean_price >= threshold
                 /\ stats[i].median_price >= threshold
                 /\ stats[i].total_value >= threshold

\* a sale at exactly the threshold is kept and counted, one below it is not
C7_Witness ==
    /\ AnalyzeRan
    /\ \E i \in 1..Len(df) : df[i].price = threshold
    /\ \E i \in 1..Len(pp_csv) : pp_csv[i].price < threshold
    /\ \E i \in 1..Len(stats) : stats[i].median_price = threshold

JoinedUnmatched == Len(joined) - Len(JoinedMatched)

\* a printed line that reports the matched rows next to the rows they are
\* matched out of
ReportsMatchRate(line) == {"matched", "merged_rows"} \subseteq DOMAIN line

\* C8 as stated: an unmatched record is left out of every constituency
\* statistic, and in either script the output of the run reports how many
\* records are unmatched (matched against filtered records).
C8_UnmatchedExcludedAndReported ==
    (AnalyzeRan \/ AutumnRan)
        => /\ NaN \notin GroupNames
           /\ GroupNames = {JoinedName(JoinedMatched[i]) : i \in 1..Len(JoinedMatched)}
           /\ \E n \in 1..Len(stdout) :
                 /\ ReportsMatchRate(stdout[n])
                 /\ stdout[n].merged_rows - stdout[n].matched = JoinedUnmatched

\* analyze.py has finished, a filtered sale is unmatched, and no printed line
\* reports matched rows
C8_Witness ==
    /\ script = "analyze" /\ pc = "done"
    /\ JoinedUnmatched > 0
    /\ \A n \in 1..Len(stdout) : ~ReportsMatchRate(stdout[n])
    /\ DOMAIN files = {FileName("constituency_impact", 1), FileName("household_impact", 1),
                        FileName("constituency_impact", 2), FileName("household_impact", 2)}

RowCount(r) == IF script = "analyze" THEN r.num_sales ELSE r.properties

\* the sum of the (time-adjusted) prices of joined rows, as the result table
\* holds it: whole units
TotalOf(rows) ==
    IF script = "analyze" THEN SumSeq(Column(rows, LAMBDA r : r.price))
    ELSE FRound0(FSumSeq(Column(rows, LAMBDA r : r.price_2028)))

RowsNamed(name) ==
    {i \in 1..Len(stats) :
        (IF script = "analyze" THEN stats[i].constituency_name
         ELSE stats[i].constituency) = name}

\* C9 as stated: the result table has exactly one row per distinct
\* constituency name among the matched rows, with the number of the group's
\* matched rows as its count and the sum of their (time-adjusted) prices as
\* its total value; for the table analyze_threshold writes after the
\* household merge and for the table analyze() returns.
C9_OneRowPerConstituency ==
    (AnalyzeRan \/ AutumnRan)
        => /\ \A i \in 1..Len(JoinedMatched) :
                 Cardinality(RowsNamed(JoinedName(JoinedMatched[i]))) = 1
           /\ \A i \in 1..Len(stats) :
                 LET rows == JoinedOf(CHOOSE n \in GroupNames : i \in RowsNamed(n))
                 IN  /\ rows # << >>
                     /\ RowCount(stats[i]) = Len(rows)
                     /\ stats[i].total_value = TotalOf(rows)

\* analyze.py: one constituency among the matched rows, two rows for it in the
\* table written after the household merge
C9_Witness ==
    /\ AnalyzeRan
    /\ Cardinality({JoinedName(JoinedMatched[i]) : i \in 1..Len(JoinedMatched)}) = 1
    /\ Len(stats) = 2
    /\ stats[1].constituency_name = stats[2].constituency_name
    /\ stats[1].total_households # stats[2].total_households
    /\ files[FileName("constituency_impact", threshold \div 1000000)] = stats

\* the charge of the band that holds a value
BandCharge(v) ==
    BANDS_2028[CHOOSE i \in 1..Len(BANDS_2028) : InBand(v, BANDS_2028[i])].charge

\* C10: the derived revenue of every group is the sum of the charges of the
\* group's matched rows: the fixed fee per row in analyze.py, that is
\* count * 2000, and each row's band charge in analyze_autumn_budget.py.
C10_RevenueIsSumOfCharges ==
    /\ AnalyzeRan
          => \A i \in 1..Len(stats) :
                /\ stats[i].estimated_annual_revenue = stats[i].num_sales * FEE
                /\ stats[i].estimated_annual_revenue =
                       SumSeq(Column(JoinedOf(stats[i].constituency_name), LAMBDA r : FEE))
    /\ AutumnRan
          => \A i \in 1..Len(stats) :
                stats[i].implied_surcharge =
                    SumSeq(Column(JoinedOf(stats[i].constituency),
                                  LAMBDA r : BandCharge(r.price_2028)))

\* a group of two sales in different bands: 3500 + 7500
C10_Witness ==
    /\ AutumnRan
    /\ \E i \in 1..Len(stats) :
          /\ stats[i].properties = 2
          /\ stats[i].implied_surcharge = 11000

(***************************************************************************)
(* Claims about the household percentages of analyze.py (Spec)             *)
(***************************************************************************)
\* the household rows of a constituency name
HouseholdsOf(name) == SelectSeq(households, LAMBDA h : h.constituency_name = name)

\* p is x rounded to three decimals for x = 100 * n / total, in exact
\* arithmetic: |1000 p - 100000 n / total| <= 1/2
IsPctOf(p, n, total) ==
    /\ p.kind = "num"
    /\ 2 * Abs(p.thousandths * total - 100000 * n) <= total

\* the household_impact table written for the last threshold
HouseholdImpactFile == files[FileName("household_impact", threshold \div 1000000)]

\* C11 as stated: a constituency of the household table gets exactly
\* 100 * count / total households, and a matched constituency the household
\* table lacks gets a missing percentage, distinct from 0.
C11_ExactPercentage ==
    AnalyzeRan
        => \A i \in 1..Len(stats) :
              IF stats[i].total_households = << >>
              THEN stats[i].pct_households_affected.kind = "nan"
              ELSE stats[i].total_households[1] > 0 =>
                       /\ stats[i].pct_households_affected.kind = "num"
                       /\ stats[i].pct_households_affected.thousandths
                              * stats[i].total_households[1]
                          = 100000 * stats[i].num_sales

\* C11 amended: a constituency of the household table with a total above 0
\* gets 100 * count / total households rounded to three decimals, in the
\* result table and in the household-impact table; a matched constituency the
\* household table lacks gets a missing percentage in both, which is not the
\* number 0.
C11_RoundedPercentage ==
    AnalyzeRan
        => /\ \A i \in 1..Len(stats) :
                 LET r  == stats[i]
                     hh == HouseholdsOf(r.constituency_name)
                 IN  /\ hh = << >> <=> r.total_households = << >>
                     /\ hh = << >> => r.pct_households_affected.kind = "nan"
                     /\ hh # << >> =>
                            /\ \E k \in 1..Len(hh) :
                                  r.total_households = << hh[k].total_households >>
                            /\ r.total_households[1] > 0 =>
                                  IsPctOf(r.pct_households_affected, r.num_sales,
                                          r.total_households[1])
                     /\ \E k \in 1..Len(HouseholdImpactFile) :
                           /\ HouseholdImpactFile[k].constituency_name = r.constituency_name
                           /\ HouseholdImpactFile[k].pct_households_affected
                                  = r.pct_households_affected
           /\ Len(HouseholdImpactFile) = Len(stats)

\* one sale among 30000 households is 0.003 per cent, not 0.00333...; and a
\* matched constituency without a household row has a missing percentage
C11_Witness ==
    /\ AnalyzeRan
    /\ \E i \in 1..Len(stats) :
          /\ stats[i].num_sales = 1
          /\ stats[i].total_households = << 30000 >>
          /\ stats[i].pct_households_affected = [kind |-> "num", thousandths |-> 3]
    /\ \E i \in 1..Len(stats) :
          /\ stats[i].total_households = << >>
          /\ stats[i].pct_households_affected.kind = "nan"

\* C12 as stated: with a denominator of zero (a household total of 0, no
\* implied surcharge, no sale in scope, an empty sales file) the run raises
\* no numeric fault, the percentage or share concerned is undefined, neither
\* a number nor infinity, and the other rows are computed.
C12_ZeroDenominatorUndefined ==
    /\ pc # "ZeroDivisionError"
    /\ AnalyzeRan
          => \A i \in 1..Len(stats) :
                stats[i].total_households = << 0 >>
                    => stats[i].pct_households_affected.kind = "nan"
    /\ (script = "autumn" /\ pc = "done" /\ stats = << >>)
          => files[FileName("constituency_surcharge_summary", 0)] = << >>

\* analyze.py: a constituency with 0 households is written with an infinite
\* percentage, next to a row with a numeric one
C12_Witness ==
    /\ AnalyzeRan
    /\ \E i, j \in 1..Len(stats) :
          /\ stats[i].total_households = << 0 >>
          /\ stats[i].pct_households_affected.kind = "inf"
          /\ \E k \in 1..Len(HouseholdImpactFile) :
                HouseholdImpactFile[k].pct_households_affected.kind = "inf"
          /\ stats[j].pct_households_affected.kind = "num"

(***************************************************************************)
(* Claims about missing and empty input files (Spec)                       *)
(***************************************************************************)
\* the required tables that hold no row
EmptyTables ==
    {f \in {"pp", "lookup", "names", "census"} :
        /\ f \notin absent
        /\ \/ f = "pp" /\ pp_csv = << >>
           \/ f = "lookup" /\ lookup_csv = << >>
           \/ f = "names" /\ names_csv = << >>
           \/ f = "census" /\ script = "analyze" /\ census_xlsx = << >>}

Aborted == pc = "exit_1" /\ stdout # << >> /\ "file" \in DOMAIN stdout[Len(stdout)]

\* C13 as stated: with a required input table absent or empty the run
\* computes nothing and writes no file, and when it has stopped it has
\* stopped with the failure status and a message that names the table.
C13_MissingOrEmptyAborts ==
    (absent # {} \/ EmptyTables # {})
        => /\ files = << >> /\ stats = << >> /\ joined = << >>
           /\ pc \in {"start", "loaded", "exit_1"}
           /\ pc = "exit_1" =>
                 /\ Aborted
                 /\ stdout[Len(stdout)].file \in absent \cup EmptyTables

\* analyze.py has run to its end on a postcode index without a row and has
\* written its four files
C13_Witness ==
    /\ script = "analyze" /\ pc = "done"
    /\ EmptyTables = {"lookup"}
    /\ pp_csv # << >>
    /\ Cardinality(DOMAIN files) = 4
    /\ \A n \in DOMAIN files : files[n] = << >>

(***************************************************************************)
(* Claims about the band configuration (SpecSurcharge, SpecBands)          *)
(***************************************************************************)
\* contiguous, lower bounds increasing, every band with a charge
ValidBands(bands) ==
    /\ \A i \in 1..Len(bands) :
          /\ bands[i].charge > 0
          /\ bands[i].upper = Inf \/ bands[i].lower < bands[i].upper
    /\ \A i \in 1..(Len(bands) - 1) :
          /\ bands[i].upper = bands[i + 1].lower
          /\ bands[i].lower < bands[i + 1].lower

\* C22: the band list applied, BANDS_2028 (each finite 2026 bound times the
\* CPI factor, truncated), keeps the band invariant: lower bounds strictly
\* increase, each upper bound is the next band's lower bound, every band has
\* lower < upper, and the last upper bound is unbounded.
C22_UpratedBandsValid ==
    /\ Len(BANDS_2028) = Len(BANDS_2026)
    /\ \A i \in 1..Len(BANDS_2028) :
          /\ BANDS_2028[i].lower # Inf
          /\ BANDS_2028[i].upper = Inf \/ BANDS_2028[i].lower < BANDS_2028[i].upper
          /\ BANDS_2028[i].upper = Inf <=> i = Len(BANDS_2028)
    /\ \A i \in 1..(Len(BANDS_2028) - 1) :
          /\ BANDS_2028[i].lower < BANDS_2028[i + 1].lower
          /\ BANDS_2028[i].upper = BANDS_2028[i + 1].lower

\* get_surcharge has charged a value that is the bound between the first two
\* uprated bands, 2,613,749 (2,500,000 * 1.0455 truncated)
C22_Witness ==
    /\ Returned(surcharge)
    /\ value = FFromInt(BANDS_2028[1].upper)
    /\ BANDS_2028[1].upper = 2613749
    /\ BANDS_2028[2].lower = 2613749
    /\ surcharge = << BANDS_2028[2].charge >>

RowName(r) == IF script = "analyze" THEN r.constituency_name ELSE r.constituency

\* the position of a group before the sort: groupby lists groups by name
GroupPosition(name) == CHOOSE k \in 1..Len(NAME_ORDER) : NAME_ORDER[k] = name

\* C15 as stated: the result table is ordered by count, descending, groups of
\* equal count in their order before the sort; the household-impact table is
\* ordered by pct_households_affected, descending.
C15_CountDescendingStableTies ==
    /\ (AnalyzeRan \/ AutumnRan)
          => \A i \in 1..(Len(stats) - 1) :
                \/ RowCount(stats[i]) > RowCount(stats[i + 1])
                \/ /\ RowCount(stats[i]) = RowCount(stats[i + 1])
                   /\ GroupPosition(RowName(stats[i])) <= GroupPosition(RowName(stats[i + 1]))
    /\ AnalyzeRan
          => \A i \in 1..(Len(HouseholdImpactFile) - 1) :
                PctKey(HouseholdImpactFile[i].pct_households_affected)
                    >= PctKey(HouseholdImpactFile[i + 1].pct_households_affected)

\* two groups of one sale each, written in the reverse of their order before
\* the sort
C15_Witness ==
    /\ AnalyzeRan \/ AutumnRan
    /\ Len(stats) = 2
    /\ RowCount(stats[1]) = RowCount(stats[2])
    /\ GroupPosition(RowName(stats[1])) > GroupPosition(RowName(stats[2]))

(***************************************************************************)
(* Claims about rounding (Spec)                                            *)
(***************************************************************************)
SummaryFile == files[FileName("constituency_surcharge_summary", 0)]

\* the percentages written, in thousandths of a per cent
WrittenPercentages ==
    IF script = "analyze"
    THEN {stats[i].pct_households_affected.thousandths :
             i \in {j \in 1..Len(stats) : stats[j].pct_households_affected.kind = "num"}}
    ELSE IF pc = "done"
         THEN {10 * SummaryFile[i].share_pct : i \in 1..Len(SummaryFile)}
         ELSE {}

\* the 2028 prices of the matched rows of a group, unrounded
Prices2028(name) == Column(JoinedOf(name), LAMBDA r : r.price_2028)

\* no value is rounded before a computation it feeds: the mean comes from the
\* unrounded sum, the share from the implied surcharges, the allocation and
\* share_pct from the unrounded share
FedUnrounded ==
    /\ AutumnRan =>
          \A i \in 1..Len(stats) :
             LET r == stats[i]
                 p == Prices2028(r.constituency)
             IN  /\ r.total_value = FRound0(FSumSeq(p))
                 /\ r.mean_price = FRound0(FDivInt(FSumSeq(p), Len(p)))
                 /\ r.share = FDivInt(FFromInt(r.implied_surcharge),
                                      SumSeq(Column(stats, LAMBDA x : x.implied_surcharge)))
                 /\ r.allocated_revenue = FRound0(FMul(r.share, FFromInt(OBR_REVENUE_2029_30)))
                 /\ pc = "done" =>
                       /\ SummaryFile[i].allocated_from_obr = r.allocated_revenue
                       /\ SummaryFile[i].share_pct =
                              FRound0(FMul(FMul(r.share, FFromInt(100)), FFromInt(100)))
    /\ AnalyzeRan =>
          \A i \in 1..Len(stats) :
             LET r == stats[i]
                 p == Column(JoinedOf(r.constituency_name), LAMBDA x : x.price)
             IN  /\ r.total_value = SumSeq(p)
                 /\ r.mean_price = FRound0(FDivInt(FFromInt(SumSeq(p)), Len(p)))
                 /\ r.estimated_annual_revenue = Len(p) * FEE

\* C16 as stated: nothing that feeds a later computation is rounded before
\* it, and every written currency or percentage field is a whole number.
C16_WholeUnitsAtOutput ==
    (AnalyzeRan \/ AutumnRan)
        => /\ FedUnrounded
           /\ \A t \in WrittenPercentages : t % 1000 = 0

\* C16 amended: nothing that feeds a later computation is rounded before it;
\* written currency fields are whole numbers; pct_households_affected is
\* written to three decimals and share_pct to two.
C16_RoundedAtOutput ==
    (AnalyzeRan \/ AutumnRan)
        => /\ FedUnrounded
           /\ script = "analyze" =>
                 \A i \in 1..Len(stats) :
                    (stats[i].total_households # << >> /\ stats[i].total_households[1] > 0)
                        => IsPctOf(stats[i].pct_households_affected, stats[i].num_sales,
                                   stats[i].total_households[1])

\* a share written as 14.29 per cent, from a share that is not 0.14
C16_Witness ==
    /\ script = "autumn" /\ pc = "done"
    /\ \E i \in 1..Len(stats) :
          /\ SummaryFile[i].share_pct = 1429
          /\ stats[i].share # FDivInt(FFromInt(14), 100)
          /\ stats[i].allocated_revenue = 57142857

\* the names of the constituency directory the run loaded
DirectoryNames == {const_names[c] : c \in DOMAIN const_names}

\* the rows of every output table of the run
OutputRows ==
    {stats[i] : i \in 1..Len(stats)}
        \cup UNION {{files[f][i] : i \in 1..Len(files[f])} : f \in DOMAIN files}

\* C18: every row of the constituency result table carries exactly one
\* constituency name, a value of the constituency directory of the run; no
\* output row has an unknown or missing name, also when a postcode resolves
\* to an identifier the directory lacks.
C18_EveryRowNamedFromDirectory ==
    (AnalyzeRan \/ AutumnRan) =>
        \A r \in OutputRows :
            /\ RowName(r) # NaN
            /\ RowName(r) \in DirectoryNames

\* a sale above the threshold resolved to an identifier the directory lacks,
\* and the result table has rows
C18_Witness ==
    /\ AnalyzeRan \/ AutumnRan
    /\ pc = "done"
    /\ stats # << >>
    /\ \E i \in 1..Len(joined) :
          /\ (IF script = "analyze" THEN joined[i].pcon ELSE joined[i].short_code) # NaN
          /\ (IF script = "analyze" THEN joined[i].pcon ELSE joined[i].short_code)
                \notin DOMAIN const_names
          /\ JoinedName(joined[i]) = NaN

\* the census rows of one constituency (identifier and name) that are not
\* 'Does not apply' rows
CountedRows(code, name) ==
    SelectSeq(census_xlsx,
              LAMBDA o : o.code = code /\ o.name = name /\ o.category # "Does not apply")

\* the sum of the Observation cells of census rows
Observations(rows) ==
    LET RECURSIVE Upto(_)
        Upto(k) == IF k = 0 THEN 0 ELSE Upto(k - 1) + rows[k].Observation
    IN  Upto(Len(rows))

HouseholdsLoaded == script = "analyze" /\ pc \in {"loaded", "stats_1_5m", "done"}

\* C19: load_household_data excludes every 'Does not apply' row before it
\* groups and sums the remaining observations: the table has exactly one
\* total per constituency (identifier and name) of the remaining rows, equal
\* to the sum of that constituency's remaining observations, and no other
\* row.
C19_HouseholdTotals ==
    HouseholdsLoaded =>
        /\ \A i \in 1..Len(census_xlsx) :
              census_xlsx[i].category # "Does not apply" =>
                  \E k \in 1..Len(households) :
                      /\ households[k].constituency_code = census_xlsx[i].code
                      /\ households[k].constituency_name = census_xlsx[i].name
                      /\ \A j \in 1..Len(households) :
                            (/\ households[j].constituency_code = census_xlsx[i].code
                             /\ households[j].constituency_name = census_xlsx[i].name)
                                => j = k
        /\ \A k \in 1..Len(households) :
              LET counted == CountedRows(households[k].constituency_code,
                                         households[k].constituency_name)
              IN  /\ counted # << >>
                  /\ households[k].total_households = Observations(counted)

\* the sheet holds a 'Does not apply' row with households in it, next to two
\* rows of the same constituency that are summed
C19_Witness ==
    /\ HouseholdsLoaded
    /\ \E i \in 1..Len(census_xlsx) :
          /\ census_xlsx[i].category = "Does not apply"
          /\ census_xlsx[i].Observation > 0
          /\ Len(CountedRows(census_xlsx[i].code, census_xlsx[i].name)) >= 2
          /\ \E k \in 1..Len(households) :
                /\ households[k].constituency_name = census_xlsx[i].name
                /\ households[k].total_households = 40000

\* the household rows the merge of analyze_threshold attaches to the group
\* of a name
JoinedHouseholds(name) ==
    SelectSeq(households, LAMBDA h : h.constituency_name = name)

\* the row comes from the constituency directory that named the groups
FromDirectory(h) ==
    /\ h.constituency_code \in DOMAIN const_names
    /\ const_names[h.constituency_code] = h.constituency_name

\* C20: a run uses exactly one constituency directory version: every name or
\* identifier used as a join key (the grouping of the sales and the join of
\* the household table) comes from the same directory.
C20_OneDirectoryVersion ==
    AnalyzeRan =>
        \A i \in 1..Len(stats) :
            LET joined_rows == JoinedHouseholds(stats[i].constituency_name)
            IN  \A k \in 1..Len(joined_rows) : FromDirectory(joined_rows[k])

\* a group named by the directory received the household total of a census
\* constituency whose identifier the directory does not hold
C20_Witness ==
    /\ AnalyzeRan
    /\ \E i \in 1..Len(stats) :
          /\ stats[i].constituency_name \in DirectoryNames
          /\ stats[i].total_households # << >>
          /\ \E k \in 1..Len(households) :
                /\ households[k].constituency_name = stats[i].constituency_name
                /\ << households[k].total_households >> = stats[i].total_households
                /\ households[k].constituency_code \notin DOMAIN const_names

\* the methodology of the module documentation: a 2024 price in 2026 prices,
\* and the charge of the 2026 band that holds it (0 below the lowest band)
PriceIn2026(price) ==
    FMul(FFromInt(price), calculate_uprating_factor(HPI_GROWTH, 2024, 2026))

ChargeIn2026Prices(price) ==
    LET v   == PriceIn2026(price)
        hit == {i \in 1..Len(BANDS_2026) : InBand(v, BANDS_2026[i])}
    IN  IF hit = {} THEN 0 ELSE BANDS_2026[CHOOSE i \in hit : TRUE].charge

\* C21: 2024 sale prices are uprated to 2026 prices with the HPI forecast and
\* the surcharge bands in 2026 prices (2m-2.5m: 2500, 2.5m-3m: 3500,
\* 3m-5m: 5000, 5m+: 7500) are applied to the uprated prices: the sales in
\* scope are those that a 2026 band holds, each charged that band's charge.
C21_BandsIn2026Prices ==
    AutumnRan =>
        /\ Len(df) = Cardinality({i \in 1..Len(pp_csv) :
                                    ChargeIn2026Prices(pp_csv[i].price) > 0})
        /\ \A i \in 1..Len(df) :
              /\ df[i].price_2028 = PriceIn2026(df[i].price)
              /\ df[i].surcharge = ChargeIn2026Prices(df[i].price)

\* a sale of 1,888,821 is charged 2,500, although it is worth less than
\* 2,000,000 in 2026 prices
C21_Witness ==
    /\ AutumnRan
    /\ \E i \in 1..Len(df) :
          /\ df[i].price = 1888821
          /\ df[i].surcharge = 2500
          /\ FCmp(PriceIn2026(df[i].price), FFromInt(2000000)) < 0
          /\ ChargeIn2026Prices(df[i].price) = 0

\* the table the first and the second call of analyze_threshold wrote
ImpactAt1_5m == files[FileName("constituency_impact", 1500000 \div 1000000)]
ImpactAt2m   == files[FileName("constituency_impact", 2000000 \div 1000000)]

\* C24: results are monotone in the threshold: every constituency in the
\* result at 2,000,000 is in the result at 1,500,000, with num_sales,
\* total_value and estimated_annual_revenue no larger at the higher
\* threshold, and the two calls write to distinct output files.
C24_MonotoneInThreshold ==
    (script = "analyze" /\ pc = "done") =>
        /\ Cardinality(DOMAIN files) = 4
        /\ stats = ImpactAt2m
        /\ \A i \in 1..Len(ImpactAt2m) :
              \E j \in 1..Len(ImpactAt1_5m) :
                  /\ ImpactAt1_5m[j].constituency_name = ImpactAt2m[i].constituency_name
                  /\ ImpactAt2m[i].num_sales <= ImpactAt1_5m[j].num_sales
                  /\ ImpactAt2m[i].total_value <= ImpactAt1_5m[j].total_value
                  /\ ImpactAt2m[i].estimated_annual_revenue
                        <= ImpactAt1_5m[j].estimated_annual_revenue

\* a constituency with fewer sales and a smaller total value at the higher
\* threshold
C24_Witness ==
    /\ script = "analyze" /\ pc = "done"
    /\ \E i \in 1..Len(ImpactAt2m), j \in 1..Len(ImpactAt1_5m) :
          /\ ImpactAt1_5m[j].constituency_name = ImpactAt2m[i].constituency_name
          /\ ImpactAt2m[i].num_sales < ImpactAt1_5m[j].num_sales
          /\ ImpactAt2m[i].total_value < ImpactAt1_5m[j].total_value
          /\ ImpactAt2m[i].estimated_annual_revenue
                < ImpactAt1_5m[j].estimated_annual_revenue

(***************************************************************************)
(* Claims about the map scripts, checked under SpecMaps                    *)
(***************************************************************************)
\* the columns of a written file are those of its header line
WrittenColumns(stem, label, header) ==
    IF FileName(stem, label) \in DOMAIN files
    THEN {ColumnsRead(files[FileName(stem, label)], header)}
    ELSE {}

\* C26: the output of each analysis stage satisfies the input contract of
\* the map stage that consumes it: every column create_hex_map reads is a
\* column of constituency_impact_<label>.csv, every column
\* generate_d3_map_html reads is a column of
\* constituency_surcharge_summary.csv, and the map script run after the
\* analysis ends without a missing-column failure.
C26_MapInputContract ==
    /\ map_status # "KeyError"
    /\ \A label \in {1, 2} :
          \A columns \in WrittenColumns("constituency_impact", label, ImpactColumns) :
              HexMapReads \subseteq columns
    /\ \A columns \in WrittenColumns("constituency_surcharge_summary", 0, SummaryColumns) :
          D3MapReads \subseteq columns

\* analyze.py wrote a constituency to constituency_impact_2m.csv, under the
\* columns constituency_name, num_sales and estimated_annual_revenue, and
\* create_hex_map ended with KeyError
C26_Witness ==
    /\ script = "analyze" /\ pc = "done"
    /\ map_status = "KeyError"
    /\ stats # << >>
    /\ files[FileName("constituency_impact", 2)] = stats
    /\ DOMAIN stats[1] = ImpactColumns
    /\ HexMapReads \cap DOMAIN stats[1] = {}

(***************************************************************************)
(* Claims about download_data.py, checked under SpecDownload               *)
(***************************************************************************)
\* the datasets analyze.py requires: the sales file, the extracted NSPL
\* files, the census sheet and the constituency names
RequiredData == {"pp", "NSPL", "census", "names"}

\* C25: download() returns True only when dest holds the complete file,
\* also in a later run after a transfer that failed part-way, and the script
\* prints 'All downloads complete!' only if every dataset analyze.py
\* requires is present and complete, the extracted NSPL files included.
C25_SuccessOnlyWhenComplete ==
    /\ (last_return # << >> /\ last_return[1].result)
          => data_dir[last_return[1].dest] = "complete"
    /\ dl_report = "complete"
          => \A d \in RequiredData : data_dir[d] = "complete"

\* a second run found the part of the sales file that the first run left,
\* download() returned True for it, and the run printed
\* 'All downloads complete!'
C25_Witness ==
    /\ dl_runs = 2
    /\ dl_pc = "finished"
    /\ dl_report = "complete"
    /\ data_dir["pp"] = "partial"
    /\ \A d \in Destinations \ {"pp"} : data_dir[d] = "complete"

(***************************************************************************)
(* Claims about the scope filter and the bands, checked under SpecScope    *)
(***************************************************************************)
\* the upper bound of a band as a float
UpperOf(band) == IF band.upper = Inf THEN FInf ELSE FFromInt(band.upper)

BandCharges == {BANDS_2028[i].charge : i \in 1..Len(BANDS_2028)}

\* no test of get_surcharge succeeds for v: not the test before the loop,
\* not the test of any band, so that the return after the loop is reached
ReachesFallback(v) ==
    /\ ~FLess(v, FFromInt(BANDS_2028[1].lower))
    /\ \A i \in 1..Len(BANDS_2028) :
          ~(FAtLeast(v, FFromInt(BANDS_2028[i].lower)) /\ FLess(v, UpperOf(BANDS_2028[i])))

\* get_surcharge returns 0 exactly below the lowest lower bound, and a listed
\* charge otherwise
ZeroExactlyBelowScope ==
    Returned(surcharge) =>
        /\ surcharge[1] = 0 <=> FLess(value, FFromInt(BANDS_2028[1].lower))
        /\ surcharge[1] # 0 => surcharge[1] \in BandCharges

\* every record the scope filter keeps has a listed, positive charge, found
\* by the loop; every group's implied surcharge is within 2500 and 7500 per
\* property
KeptRecordsCharged ==
    AutumnRan =>
        /\ \A i \in 1..Len(df) :
              /\ df[i].surcharge > 0
              /\ df[i].surcharge \in BandCharges
              /\ ~ReachesFallback(df[i].price_2028)
        /\ \A i \in 1..Len(stats) :
              /\ 2500 * stats[i].properties <= stats[i].implied_surcharge
              /\ stats[i].implied_surcharge <= 7500 * stats[i].properties

FreshStats(t) ==
    AddHouseholds(
        ConstituencyStats(
            MatchConstituencies(FilterByThreshold(pp_csv, t),
                                load_postcode_mapping(lookup_csv),
                                DictZip(names_csv))),
        load_household_data(census_xlsx))

====
